---- MODULE Spec2Model ----
(***************************************************************************)
(* Decision core of the VWAP mean-reversion service: per-symbol state,     *)
(* EWMA indicator, the two decision policies (layered entry levels and     *)
(* session-threshold scaling) and the two orchestrators that drive them    *)
(* (DecisionEngine.decide and StrategyManager.process_tick).               *)
(*                                                                         *)
(* Numbers.  The program computes in floats.  Here deviations, EWMA        *)
(* fields and z-scores are fixed-point numbers in units of 1/Scale, prices *)
(* differences (tick size, spread) in hundredths, times of day in seconds. *)
(* Every float operation is followed by truncation toward zero.            *)
(***************************************************************************)
EXTENDS Integers, Sequences, FiniteSets, TLC

\* -------------------------------------------------------- record shapes
\* Decision (action, side, orderType, quantity); level is the index of the
\* entry level a layered order is for, 0 otherwise; action "none" stands for
\* a tick for which process_tick returned no DecisionMessage
DecisionType ==
    [action : {"hold", "flatten", "place", "none"},
     side : {"none", "buy", "sell"},
     orderType : {"none", "market", "limit"}, quantity : Nat, level : Nat]
TriggeredType == [long : Seq(BOOLEAN), short : Seq(BOOLEAN)]
\* SymbolState of state.py
SymbolStateType ==
    [observationCount : Nat, emaDeviation : Int, emaVariance : Nat,
     currentSessionDate : Nat, positionQty : Int, scaling_order_sent : BOOLEAN]
\* SymbolState with the fields the layered strategy keeps in it
StrategyStateType ==
    [observationCount : Nat, emaDeviation : Int, emaVariance : Nat,
     currentSessionDate : Nat, positionQty : Int, scaling_order_sent : BOOLEAN,
     expected_position : Int, entry_levels_triggered : TriggeredType]
\* the fields of TickFeature the decision depends on; deviation is
\* lastPrice - sessionVwap, spread is askPrice - bidPrice, trend is the
\* outcome of the trend detectors on the price history, valid is FALSE only
\* before the first tick
TickType ==
    [positionQty : Int, valid : BOOLEAN, deviation : Int, timestamp : Int,
     sessionDate : Nat, tickSize : Nat, spread : Nat, trend : BOOLEAN]
ResetType ==
    [observationCount : Nat, emaDeviation : Int, emaVariance : Nat,
     positionQty : Int, happened : BOOLEAN, suspicious : BOOLEAN]
StrategyOutcomeType ==
    [state : SymbolStateType \cup StrategyStateType, z : Int,
     decision : DecisionType]
IndicatorType == [emaDeviation : Int, emaVariance : Nat, z : Int]
PolicyOutcomeType == [decision : DecisionType, levels : TriggeredType]
ThresholdsType ==
    [z_entry : Nat, z_exit : Nat, z_second_entry : Nat,
     session : {"NY", "OVERNIGHT"}]
PolicyType ==
    [z_exit : Nat, z_entry_levels : Seq(Nat), entry_quantities : Seq(Nat),
     max_total_position : Nat]
\* a /decide request in a worker thread: where it is in process_tick, its
\* tick, and the z-score and decision it has computed so far
RequestType ==
    [z : Int, decision : DecisionType,
     pc : {"start", "counted", "scored", "checked", "done"}, request : TickType]
\* a time of day as the configuration writes it, "HH:MM": <<hour, minute>>;
\* <<>> is a flatten_time that is not configured
ClockType == (0..23) \X (0..59)
\* an entry of config.SESSION_CONFIG with its key
SessionConfigType ==
    [name : STRING, start_time : ClockType, end_time : ClockType,
     flatten_time : ClockType \cup {<<>>}]
\* an entry of config.NO_TRADING_PERIODS
PeriodType == [start : ClockType, end : ClockType]
\* what a SessionManager is constructed from
SessionManagerType ==
    [session_config : Seq(SessionConfigType),
     no_trading_periods : Seq(PeriodType), default_session : STRING]
\* a SessionManager, a time of day in seconds and what the manager's
\* methods answer for it
ResolverType ==
    [manager : SessionManagerType, current_time : 0..86399,
     current_session : STRING, trading_allowed : BOOLEAN,
     should_flatten : BOOLEAN]
\* a variance on its way to the z-score denominator
FlooredType ==
    [observationCount : Nat, emaVariance : Nat, corrected_variance : Nat,
     effective_variance : Nat]
\* quantities of the buy and sell orders working at the venue
UnfilledType == [buy : Nat, sell : Nat]
\* state and decisions of two ticks handled one after the other
SerialType ==
    [state : StrategyStateType, first : DecisionType, second : DecisionType]

Scale == 10

\* ---------------------------------------------------------------- bounds
MaxObs == 3             \* ticks modelled per session (caps observationCount)
MaxPos == 2             \* venue-reported positions range over -MaxPos..MaxPos
WarmupObservations == 2 \* Policy(warmup_observations=...) given at construction
IndicatorObs == 4       \* ticks per session when the indicator is run alone
MaxVariance == 120      \* emaVariance values floored alone range over 0..MaxVariance

\* ------------------------------------------------------ program constants
TICK_SIZE == 25                        \* 0.25, hundredths
MIN_STD_TICKS == 2
DEFAULT_MAX_SPREAD_TICKS == 2
DEFAULT_QUANTITY == 1
MAX_POSITION_SIZE == 2
EWMA_ALPHA_DEN == 10                   \* EWMA_ALPHA = 1 / 10
BIAS_CORRECTION_PERIOD == 20
MIN_VARIANCE_THRESHOLD == 4 * Scale
INITIAL_EMA_VARIANCE == 16 * Scale
NY_SESSION_Z_ENTRY == 20 * Scale
NY_SESSION_Z_EXIT == 5                 \* 0.5
NY_SESSION_Z_SECOND_ENTRY == 40 * Scale
OVERNIGHT_Z_ENTRY == 6 * Scale
OVERNIGHT_Z_EXIT == 3                  \* 0.3
OVERNIGHT_Z_SECOND_ENTRY == 10 * Scale
Z_SCORE_SECOND_ENTRY == NY_SESSION_Z_SECOND_ENTRY

HMS(h, m, s) == (h * 60 + m) * 60 + s
NY_SESSION_START == HMS(7, 30, 0)
NY_SESSION_END == HMS(16, 0, 0)
MORNING_RESTRICTION_START == HMS(7, 25, 0)
MORNING_RESTRICTION_END == HMS(7, 45, 0)
AFTERNOON_RESTRICTION_START == HMS(15, 15, 0)
AFTERNOON_RESTRICTION_END == HMS(17, 0, 0)

\* ---------------------------------------------------------- arithmetic
Abs(x) == IF x < 0 THEN -x ELSE x
Max(a, b) == IF a >= b THEN a ELSE b
Sign(x) == IF x < 0 THEN -1 ELSE IF x > 0 THEN 1 ELSE 0

\* float division, truncated toward zero
Quot(a, b) == Sign(a) * Sign(b) * (Abs(a) \div Abs(b))

\* a * b / c for a, b >= 0 and c > 0 without forming a * b
MulDiv(a, b, c) == (a \div c) * b + ((a % c) * b) \div c

\* integer square root by Newton's iteration from r >= sqrt(x), r > 0
RECURSIVE SqrtNewton(_, _)
SqrtNewton(x, r) ==
    LET n == (r + x \div r) \div 2
    IN  IF n >= r THEN r ELSE SqrtNewton(x, n)

SqrtStart(x) ==
    IF x < 16 THEN 4
    ELSE IF x < 4096 THEN 64
    ELSE IF x < 1048576 THEN 1024
    ELSE IF x < 268435456 THEN 16384
    ELSE 46341

\* math.sqrt on a value in units of 1/Scale, result in units of 1/Scale
Sqrt(x) == IF x = 0 THEN 0 ELSE SqrtNewton(x * Scale, SqrtStart(x * Scale))

\* (1 - alpha) ** n in millionths
RECURSIVE DecayPow(_)
DecayPow(n) ==
    IF n = 0 THEN 1000000
    ELSE ((EWMA_ALPHA_DEN - 1) * DecayPow(n - 1)) \div EWMA_ALPHA_DEN

\* ----------------------------------------------------------- indicators
\* a floor whose transition zone returns the threshold throughout
smooth_variance_floor_FlatZone(variance, min_threshold) ==
    IF 2 * variance < 3 * min_threshold THEN min_threshold ELSE variance

\* _smooth_variance_floor(variance, min_threshold)
smooth_variance_floor(variance, min_threshold) ==
    IF variance <= min_threshold THEN min_threshold
    ELSE IF 2 * variance < 3 * min_threshold
         THEN min_threshold
              + Quot(2 * (variance - min_threshold) * (variance - min_threshold),
                     min_threshold)
         ELSE variance

\* bias_correction = (1 - (1 - alpha) ** n) / (1 - (1 - alpha)), thousandths
bias_correction(n) == (1000000 - DecayPow(n)) \div (1000 \div EWMA_ALPHA_DEN)

\* the EWMA update measuring the squared distance from the mean after its
\* update (line 14 missing, line 16 reading state.emaDeviation)
ewma_fields_UpdatedMean(state, deviation) ==
    IF state.observationCount = 1
    THEN [emaDeviation |-> deviation, emaVariance |-> Abs(deviation) * 2]
    ELSE LET mean == Quot((EWMA_ALPHA_DEN - 1) * state.emaDeviation + deviation,
                          EWMA_ALPHA_DEN)
             squared_deviation ==
                 Quot((deviation - mean) * (deviation - mean), Scale)
         IN  [emaDeviation |-> mean,
              emaVariance |->
                 Quot((EWMA_ALPHA_DEN - 1) * state.emaVariance + squared_deviation,
                      EWMA_ALPHA_DEN)]

\* the EWMA fields update_ewma_z leaves in the state
ewma_fields(state, deviation) ==
    IF state.observationCount = 1
    THEN [emaDeviation |-> deviation, emaVariance |-> Abs(deviation) * 2]
    ELSE LET prev_ema_deviation == state.emaDeviation
             squared_deviation ==
                 Quot((deviation - prev_ema_deviation)
                      * (deviation - prev_ema_deviation), Scale)
         IN  [emaDeviation |->
                 Quot((EWMA_ALPHA_DEN - 1) * state.emaDeviation + deviation,
                      EWMA_ALPHA_DEN),
              emaVariance |->
                 Quot((EWMA_ALPHA_DEN - 1) * state.emaVariance + squared_deviation,
                      EWMA_ALPHA_DEN)]

corrected_variance(observationCount, emaVariance) ==
    IF observationCount < BIAS_CORRECTION_PERIOD
    THEN MulDiv(emaVariance, 1000, bias_correction(observationCount))
    ELSE emaVariance

effective_variance(observationCount, emaVariance) ==
    smooth_variance_floor(corrected_variance(observationCount, emaVariance),
                          MIN_VARIANCE_THRESHOLD)

\* an update_ewma_z that scores the distance from the smoothed deviation
\* instead of the deviation itself
update_ewma_z_Centered(s, deviation) ==
    LET f == ewma_fields(s, deviation)
    IN  [emaDeviation |-> f.emaDeviation,
         emaVariance |-> f.emaVariance,
         z |-> Quot((deviation - f.emaDeviation) * Scale,
                    Sqrt(effective_variance(s.observationCount,
                                            f.emaVariance)))]

\* update_ewma_z: new EWMA fields and the z-score returned
update_ewma_z(state, deviation) ==
    LET f == ewma_fields(state, deviation)
    IN  [emaDeviation |-> f.emaDeviation,
         emaVariance |-> f.emaVariance,
         z |-> Quot(deviation * Scale,
                    Sqrt(effective_variance(state.observationCount,
                                            f.emaVariance)))]

\* ------------------------------------------------------------ decisions
Hold == [action |-> "hold", side |-> "none", orderType |-> "none",
         quantity |-> 0, level |-> 0]
Flatten == [action |-> "flatten", side |-> "none", orderType |-> "none",
            quantity |-> 0, level |-> 0]
\* level: index (from 1) of the entry level the order is for, 0 when the
\* order does not come from the layered levels
Place(side, orderType, quantity, level) ==
    [action |-> "place", side |-> side, orderType |-> orderType,
     quantity |-> quantity, level |-> level]

\* ------------------------------------------- layered policy (engine/policy.py)
\* Policy.__init__ arguments the model constructs the layered policy with
SpacedLevels ==
    [z_exit |-> 25, z_entry_levels |-> <<200, 450>>,
     entry_quantities |-> <<1, 1>>, max_total_position |-> 2]
LayeredConfigs ==
    { SpacedLevels,
      [z_exit |-> 350, z_entry_levels |-> <<200, 400>>,
       entry_quantities |-> <<2, 1>>, max_total_position |-> 2],
      [z_exit |-> 25, z_entry_levels |-> <<200, 300>>,
       entry_quantities |-> <<1, 2>>, max_total_position |-> 2] }

NoLevels(p) == [i \in 1..Len(p.z_entry_levels) |-> FALSE]
ClearedLevels(p) == [long |-> NoLevels(p), short |-> NoLevels(p)]

\* instrument_tick_size or self.tick_size
effective_tick_size(instrument_tick_size) ==
    IF instrument_tick_size # 0 THEN instrument_tick_size ELSE TICK_SIZE

\* std_dev < min_std_ticks * effective_tick_size (tenths against hundredths)
VarianceGuard(ema_variance, instrument_tick_size) ==
    Sqrt(Max(ema_variance, MIN_VARIANCE_THRESHOLD)) * 100
        < MIN_STD_TICKS * effective_tick_size(instrument_tick_size) * Scale

RECURSIVE SumTriggered(_, _, _)
SumTriggered(quantities, triggered, i) ==
    IF i > Len(triggered) THEN 0
    ELSE (IF triggered[i] THEN quantities[i] ELSE 0)
         + SumTriggered(quantities, triggered, i + 1)

\* expected_position of lines 66-68
ExpectedPosition(p, levels) ==
    SumTriggered(p.entry_quantities, levels.long, 1)
    - SumTriggered(p.entry_quantities, levels.short, 1)

\* a reconciliation that resets the long flags only (line 75 missing)
Reconcile_LongOnly(p, position_qty, levels) ==
    IF position_qty # ExpectedPosition(p, levels)
    THEN [levels EXCEPT !.long = NoLevels(p)]
    ELSE levels

\* the flags after the reconciliation of lines 64-76
Reconcile(p, position_qty, levels) ==
    IF position_qty # ExpectedPosition(p, levels) THEN ClearedLevels(p)
    ELSE levels

\* the long loop without the position check of line 83
RECURSIVE LongLoop_NoPositionCheck(_, _, _, _, _)
LongLoop_NoPositionCheck(p, z_score, position_qty, levels, i) ==
    IF i > Len(p.z_entry_levels) THEN 0
    ELSE IF z_score < -p.z_entry_levels[i] /\ ~levels.long[i] THEN i
    ELSE LongLoop_NoPositionCheck(p, z_score, position_qty, levels, i + 1)

\* the long loop without the "not entry_levels_triggered" test of line 81
RECURSIVE LongLoop_IgnoreFlag(_, _, _, _, _)
LongLoop_IgnoreFlag(p, z_score, position_qty, levels, i) ==
    IF i > Len(p.z_entry_levels) THEN 0
    ELSE IF z_score < -p.z_entry_levels[i]
            /\ position_qty + p.entry_quantities[i] <= p.max_total_position
         THEN i
         ELSE LongLoop_IgnoreFlag(p, z_score, position_qty, levels, i + 1)

\* the long loop iterating the levels from the highest threshold down
RECURSIVE LongLoop_HighestFirst(_, _, _, _, _)
LongLoop_HighestFirst(p, z_score, position_qty, levels, i) ==
    IF i > Len(p.z_entry_levels) THEN 0
    ELSE LET higher == LongLoop_HighestFirst(p, z_score, position_qty, levels,
                                             i + 1)
         IN  IF higher # 0 THEN higher
             ELSE IF /\ z_score < -p.z_entry_levels[i] /\ ~levels.long[i]
                     /\ position_qty + p.entry_quantities[i]
                            <= p.max_total_position
             THEN i
             ELSE 0

\* the long loop leaving at the first met, untriggered level that the
\* position check of line 83 blocks
RECURSIVE LongLoop_StopAtBlocked(_, _, _, _, _)
LongLoop_StopAtBlocked(p, z_score, position_qty, levels, i) ==
    IF i > Len(p.z_entry_levels) THEN 0
    ELSE IF z_score < -p.z_entry_levels[i] /\ ~levels.long[i]
         THEN IF position_qty + p.entry_quantities[i] <= p.max_total_position
              THEN i
              ELSE 0
         ELSE LongLoop_StopAtBlocked(p, z_score, position_qty, levels, i + 1)

\* for i, threshold in enumerate(z_entry_levels), long side: the level that
\* fires, 0 when the loop ends without a return
RECURSIVE LongLoop(_, _, _, _, _)
LongLoop(p, z_score, position_qty, levels, i) ==
    IF i > Len(p.z_entry_levels) THEN 0
    ELSE IF z_score < -p.z_entry_levels[i] /\ ~levels.long[i]
         THEN IF position_qty + p.entry_quantities[i] <= p.max_total_position
              THEN i
              ELSE LongLoop(p, z_score, position_qty, levels, i + 1)
         ELSE LongLoop(p, z_score, position_qty, levels, i + 1)

RECURSIVE ShortLoop(_, _, _, _, _)
ShortLoop(p, z_score, position_qty, levels, i) ==
    IF i > Len(p.z_entry_levels) THEN 0
    ELSE IF z_score > p.z_entry_levels[i] /\ ~levels.short[i]
         THEN IF position_qty - p.entry_quantities[i] >= -p.max_total_position
              THEN i
              ELSE ShortLoop(p, z_score, position_qty, levels, i + 1)
         ELSE ShortLoop(p, z_score, position_qty, levels, i + 1)

\* lines 78-123: entry evaluation on the reconciled flags
LayeredEntry(p, z_score, position_qty, levels) ==
    LET l == IF z_score < 0 THEN LongLoop(p, z_score, position_qty, levels, 1)
             ELSE 0
        s == IF z_score > 0 THEN ShortLoop(p, z_score, position_qty, levels, 1)
             ELSE 0
    IN  IF l # 0
        THEN [decision |-> Place("buy", "market", p.entry_quantities[l], l),
              levels |-> [levels EXCEPT !.long[l] = TRUE]]
        ELSE IF s # 0
        THEN [decision |-> Place("sell", "market", p.entry_quantities[s], s),
              levels |-> [levels EXCEPT !.short[s] = TRUE]]
        ELSE [decision |-> Hold, levels |-> levels]

\* the exit branch without the assignments of lines 56-57
LayeredExit_KeepFlags(p, levels) == [decision |-> Flatten, levels |-> levels]

\* lines 53-58: the exit branch
LayeredExit(p, levels) == [decision |-> Flatten, levels |-> ClearedLevels(p)]

\* Policy.decide with the entry loops of lines 78-121 evaluated before the
\* exit of lines 53-58
LayeredDecide_EntryFirst(p, z_score, position_qty, observation_count, ema_variance, instrument_tick_size, levels) ==
    LET entry == LayeredEntry(p, z_score, position_qty,
                              Reconcile(p, position_qty, levels))
    IN  IF observation_count < WarmupObservations
        THEN [decision |-> Hold, levels |-> levels]
        ELSE IF VarianceGuard(ema_variance, instrument_tick_size)
        THEN [decision |-> Hold, levels |-> levels]
        ELSE IF Abs(position_qty) < p.max_total_position
                /\ entry.decision.action = "place"
        THEN entry
        ELSE IF Abs(z_score) < p.z_exit /\ position_qty # 0
        THEN LayeredExit(p, levels)
        ELSE [decision |-> Hold, levels |-> levels]

\* Policy.decide of engine/policy.py: the decision and the flags it leaves in
\* entry_levels_triggered
LayeredDecide(p, z_score, position_qty, observation_count, ema_variance, instrument_tick_size, levels) ==
    IF observation_count < WarmupObservations
    THEN [decision |-> Hold, levels |-> levels]
    ELSE IF VarianceGuard(ema_variance, instrument_tick_size)
    THEN [decision |-> Hold, levels |-> levels]
    ELSE IF Abs(z_score) < p.z_exit /\ position_qty # 0
    THEN LayeredExit(p, levels)
    ELSE IF Abs(position_qty) >= p.max_total_position
    THEN [decision |-> Hold, levels |-> levels]
    ELSE LayeredEntry(p, z_score, position_qty,
                      Reconcile(p, position_qty, levels))

\* ------------------- session-threshold policy (strategies/.../policy.py)
NoTime == -1

\* Policy._is_ny_session
is_ny_session(timestamp) ==
    IF timestamp = NoTime THEN TRUE
    ELSE NY_SESSION_START <= timestamp /\ timestamp <= NY_SESSION_END

\* Policy._get_session_thresholds
get_session_thresholds(timestamp) ==
    IF is_ny_session(timestamp)
    THEN [z_entry |-> NY_SESSION_Z_ENTRY, z_exit |-> NY_SESSION_Z_EXIT,
          z_second_entry |-> NY_SESSION_Z_SECOND_ENTRY, session |-> "NY"]
    ELSE [z_entry |-> OVERNIGHT_Z_ENTRY, z_exit |-> OVERNIGHT_Z_EXIT,
          z_second_entry |-> OVERNIGHT_Z_SECOND_ENTRY, session |-> "OVERNIGHT"]

\* Policy._calculate_scaled_quantity
calculate_scaled_quantity(z_score, current_position, z_entry, z_second_entry) ==
    LET position_matches_signal ==
            \/ (z_score > 0 /\ current_position <= 0)
            \/ (z_score < 0 /\ current_position >= 0)
    IN  IF Abs(z_score) >= z_entry /\ current_position = 0 THEN 1
        ELSE IF /\ Abs(z_score) >= z_second_entry
                /\ position_matches_signal
                /\ Abs(current_position) = 1
        THEN 1
        ELSE 0

\* spread > max_spread_ticks * effective_tick_size
SpreadGuard(spread, instrument_tick_size) ==
    spread > DEFAULT_MAX_SPREAD_TICKS * effective_tick_size(instrument_tick_size)

\* Policy.decide of strategies/vwap_reversion/policy.py without the warmup
\* guard of lines 73-75
SessionDecide_NoWarmup(z_score, position_qty, spread, observation_count, ema_variance, instrument_tick_size, avoid_mean_reversion, scaling_order_sent, timestamp) ==
    LET t == get_session_thresholds(timestamp)
        quantity == calculate_scaled_quantity(z_score, position_qty,
                                              t.z_entry, t.z_second_entry)
        is_scaling_order ==
            Abs(position_qty) = 1 /\ Abs(z_score) >= t.z_second_entry
        orderType == IF is_scaling_order THEN "market" ELSE "limit"
    IN  IF avoid_mean_reversion
        THEN IF Abs(z_score) < t.z_exit /\ position_qty # 0 THEN Flatten
             ELSE Hold
        ELSE IF VarianceGuard(ema_variance, instrument_tick_size) THEN Hold
        ELSE IF SpreadGuard(spread, instrument_tick_size) THEN Hold
        ELSE IF Abs(z_score) < t.z_exit /\ position_qty # 0 THEN Flatten
        ELSE IF is_scaling_order /\ scaling_order_sent THEN Hold
        ELSE IF quantity > 0 /\ z_score < -t.z_entry
        THEN Place("buy", orderType, quantity, 0)
        ELSE IF quantity > 0 /\ z_score > t.z_entry
        THEN Place("sell", orderType, quantity, 0)
        ELSE Hold

\* Policy.decide of strategies/vwap_reversion/policy.py with the exit test
\* of lines 93-95 moved before the spread guard of lines 89-91
SessionDecide_ExitBeforeSpread(z_score, position_qty, spread, observation_count, ema_variance, instrument_tick_size, avoid_mean_reversion, scaling_order_sent, timestamp) ==
    LET t == get_session_thresholds(timestamp)
        quantity == calculate_scaled_quantity(z_score, position_qty,
                                              t.z_entry, t.z_second_entry)
        is_scaling_order ==
            Abs(position_qty) = 1 /\ Abs(z_score) >= t.z_second_entry
        orderType == IF is_scaling_order THEN "market" ELSE "limit"
    IN  IF observation_count < WarmupObservations THEN Hold
        ELSE IF avoid_mean_reversion
        THEN IF Abs(z_score) < t.z_exit /\ position_qty # 0 THEN Flatten
             ELSE Hold
        ELSE IF VarianceGuard(ema_variance, instrument_tick_size) THEN Hold
        ELSE IF Abs(z_score) < t.z_exit /\ position_qty # 0 THEN Flatten
        ELSE IF SpreadGuard(spread, instrument_tick_size) THEN Hold
        ELSE IF is_scaling_order /\ scaling_order_sent THEN Hold
        ELSE IF quantity > 0 /\ z_score < -t.z_entry
        THEN Place("buy", orderType, quantity, 0)
        ELSE IF quantity > 0 /\ z_score > t.z_entry
        THEN Place("sell", orderType, quantity, 0)
        ELSE Hold

\* Policy.decide of strategies/vwap_reversion/policy.py without the trend
\* filter guard of lines 77-82
SessionDecide_NoTrendGuard(z_score, position_qty, spread, observation_count, ema_variance, instrument_tick_size, avoid_mean_reversion, scaling_order_sent, timestamp) ==
    LET t == get_session_thresholds(timestamp)
        quantity == calculate_scaled_quantity(z_score, position_qty,
                                              t.z_entry, t.z_second_entry)
        is_scaling_order ==
            Abs(position_qty) = 1 /\ Abs(z_score) >= t.z_second_entry
        orderType == IF is_scaling_order THEN "market" ELSE "limit"
    IN  IF observation_count < WarmupObservations THEN Hold
        ELSE IF VarianceGuard(ema_variance, instrument_tick_size) THEN Hold
        ELSE IF SpreadGuard(spread, instrument_tick_size) THEN Hold
        ELSE IF Abs(z_score) < t.z_exit /\ position_qty # 0 THEN Flatten
        ELSE IF is_scaling_order /\ scaling_order_sent THEN Hold
        ELSE IF quantity > 0 /\ z_score < -t.z_entry
        THEN Place("buy", orderType, quantity, 0)
        ELSE IF quantity > 0 /\ z_score > t.z_entry
        THEN Place("sell", orderType, quantity, 0)
        ELSE Hold

\* Policy.decide of strategies/vwap_reversion/policy.py
SessionDecide(z_score, position_qty, spread, observation_count, ema_variance, instrument_tick_size, avoid_mean_reversion, scaling_order_sent, timestamp) ==
    LET t == get_session_thresholds(timestamp)
        quantity == calculate_scaled_quantity(z_score, position_qty,
                                              t.z_entry, t.z_second_entry)
        is_scaling_order ==
            Abs(position_qty) = 1 /\ Abs(z_score) >= t.z_second_entry
        orderType == IF is_scaling_order THEN "market" ELSE "limit"
    IN  IF observation_count < WarmupObservations THEN Hold
        ELSE IF avoid_mean_reversion
        THEN IF Abs(z_score) < t.z_exit /\ position_qty # 0 THEN Flatten
             ELSE Hold
        ELSE IF VarianceGuard(ema_variance, instrument_tick_size) THEN Hold
        ELSE IF SpreadGuard(spread, instrument_tick_size) THEN Hold
        ELSE IF Abs(z_score) < t.z_exit /\ position_qty # 0 THEN Flatten
        ELSE IF is_scaling_order /\ scaling_order_sent THEN Hold
        ELSE IF quantity > 0 /\ z_score < -t.z_entry
        THEN Place("buy", orderType, quantity, 0)
        ELSE IF quantity > 0 /\ z_score > t.z_entry
        THEN Place("sell", orderType, quantity, 0)
        ELSE Hold

\* ---------------------------------------------------------------- state
VARIABLES
    orchestrator,   \* which entry point the process serves ticks with
    policy,         \* constructor arguments of the layered Policy
    state,          \* the symbol's SymbolState
    tick,           \* the tick handled last
    zScore,         \* the z-score update_ewma_z returned for it
    decision,       \* the decision returned for it
    sessionReset,   \* SymbolState as reset_session left it during that tick
    venuePos,       \* venue position once the returned decision is filled
    execution,      \* what platform.send_decision answered for that tick
    requests,       \* the two /decide requests the thread pool is serving
    serial,         \* what handling their ticks in arrival order gives
    resolver,       \* the last query to a SessionManager and its answers
    floored,        \* the last variance floored for a z-score and the result
    unfilled,       \* quantities ordered that the venue has not filled yet
    store,          \* the symbol -> state dict and the symbol handled last
    scaled          \* scaling orders emitted while |positionQty| has stayed 1

vars ==
    <<orchestrator, policy, state, tick, zScore, decision, sessionReset, venuePos,
      execution, requests, serial, resolver, floored, unfilled, store, scaled>>

NoDate == 0

\* SymbolState.__init__ (state.py)
NewSymbolState ==
    [observationCount |-> 0,
     emaDeviation |-> 0,
     emaVariance |-> INITIAL_EMA_VARIANCE,
     currentSessionDate |-> NoDate,
     positionQty |-> 0,
     scaling_order_sent |-> FALSE]

\* the fields engine/strategies/vwap_reversion.py keeps in its SymbolState
\* on top of those of state.py
NewStrategyState(p) ==
    [observationCount |-> 0,
     emaDeviation |-> 0,
     emaVariance |-> INITIAL_EMA_VARIANCE,
     currentSessionDate |-> NoDate,
     positionQty |-> 0,
     scaling_order_sent |-> FALSE,
     expected_position |-> 0,
     entry_levels_triggered |-> ClearedLevels(p)]

\* a reset_session that clears positionQty with the statistics
reset_session_ClearsPosition(s) ==
    [s EXCEPT !.observationCount = 0,
              !.emaDeviation = 0,
              !.emaVariance = INITIAL_EMA_VARIANCE,
              !.positionQty = 0,
              !.scaling_order_sent = FALSE]

\* SymbolState.reset_session
reset_session(s) ==
    [s EXCEPT !.observationCount = 0,
              !.emaDeviation = 0,
              !.emaVariance = INITIAL_EMA_VARIANCE,
              !.scaling_order_sent = FALSE]

\* session dates are strings the model identifies by numbers: 1 and 2 are
\* two well-formed consecutive trading days, and these are the strings
\* the checks of the code tell apart
EmptyDate == 3          \* ""
FarDate == 4            \* well-formed, two years after dates 1 and 2
ShortDate == 5          \* eight characters, no dashes

\* len(date) and int(date[:4])
DateLength(date) ==
    IF date = EmptyDate THEN 0 ELSE IF date = ShortDate THEN 8 ELSE 10
DateYear(date) == IF date = FarDate THEN 2026 ELSE 2024

\* _is_valid_session_progression
is_valid_session_progression(old_date, new_date) ==
    IF DateLength(old_date) # 10 \/ DateLength(new_date) # 10 THEN FALSE
    ELSE Abs(DateYear(new_date) - DateYear(old_date)) <= 1

\* the truth value Python gives a stored date: None and "" are false
Truthy(date) == date # NoDate /\ date # EmptyDate

\* state.currentSessionDate and state.currentSessionDate != session_date
SessionChanged(s, session_date) ==
    Truthy(s.currentSessionDate) /\ s.currentSessionDate # session_date

\* DecisionEngine._maybe_reset_session and
\* StrategyManager._maybe_reset_strategy_session
maybe_reset_session(s, session_date) ==
    [(IF SessionChanged(s, session_date) THEN reset_session(s) ELSE s)
        EXCEPT !.currentSessionDate = session_date]

\* what sessionReset records for a tick
ResetRecord(s, session_date) ==
    IF SessionChanged(s, session_date)
    THEN [observationCount |-> reset_session(s).observationCount,
          emaDeviation |-> reset_session(s).emaDeviation,
          emaVariance |-> reset_session(s).emaVariance,
          positionQty |-> reset_session(s).positionQty,
          happened |-> TRUE,
          suspicious |-> ~is_valid_session_progression(s.currentSessionDate,
                                                       session_date)]
    ELSE [observationCount |-> 0, emaDeviation |-> 0, emaVariance |-> 0,
          positionQty |-> 0, happened |-> FALSE, suspicious |-> FALSE]

\* _is_restricted_hours without the morning window of lines 58-59 and 66
is_restricted_hours_AfternoonOnly(timestamp) ==
    IF timestamp = NoTime THEN FALSE
    ELSE AFTERNOON_RESTRICTION_START <= timestamp
         /\ timestamp <= AFTERNOON_RESTRICTION_END

\* _is_restricted_hours with the end of each window left out ('<' for the
\* second '<=' of lines 66 and 67)
is_restricted_hours_HalfOpen(timestamp) ==
    IF timestamp = NoTime THEN FALSE
    ELSE \/ (MORNING_RESTRICTION_START <= timestamp
             /\ timestamp < MORNING_RESTRICTION_END)
         \/ (AFTERNOON_RESTRICTION_START <= timestamp
             /\ timestamp < AFTERNOON_RESTRICTION_END)

\* DecisionEngine._is_restricted_hours
is_restricted_hours(timestamp) ==
    IF timestamp = NoTime THEN FALSE
    ELSE \/ (MORNING_RESTRICTION_START <= timestamp
             /\ timestamp <= MORNING_RESTRICTION_END)
         \/ (AFTERNOON_RESTRICTION_START <= timestamp
             /\ timestamp <= AFTERNOON_RESTRICTION_END)

\* DecisionEngine._validate_and_update_position
validate_and_update_position(s, reported_position) ==
    [s EXCEPT !.positionQty = reported_position]

\* TrendFilter.should_avoid_mean_reversion: outside the NY session it is
\* False; inside, the outcome of the ADX, momentum, velocity, divergence and
\* persistence detectors on the price history is the tick's input trend
should_avoid_mean_reversion(timestamp, trend) ==
    IF timestamp # NoTime
       /\ ~(NY_SESSION_START <= timestamp /\ timestamp <= NY_SESSION_END)
    THEN FALSE
    ELSE trend

\* ---------------------------------------------------------------- ticks
Deviations == {-1000 * Scale, 0, 1000 * Scale}
Positions == -MaxPos..MaxPos
\* the two-step policy tells positions 0, +-1 and beyond apart (exit,
\* _calculate_scaled_quantity, scaling flag): +-MAX_POSITION_SIZE stands for
\* every position beyond +-1
EnginePositions == -MAX_POSITION_SIZE..MAX_POSITION_SIZE
SessionDates == {1, 2}
\* (tickSize, askPrice - bidPrice) in hundredths; tickSize 0 is None
\* the (timestamp, instrument, trend) combinations of the engine's ticks
EngineInputs ==
    { <<NoTime, <<0, 25>>, FALSE>>,
      <<HMS(12, 0, 0), <<0, 75>>, FALSE>>,
      <<HMS(12, 0, 0), <<0, 75>>, TRUE>>,
      <<HMS(12, 0, 0), <<1000, 25>>, FALSE>>,
      <<HMS(7, 30, 0), <<0, 25>>, FALSE>>,
      <<HMS(21, 0, 0), <<0, 25>>, TRUE>> }

NoTick ==
    [positionQty |-> 0, valid |-> FALSE, deviation |-> 0, timestamp |-> NoTime,
     sessionDate |-> NoDate, tickSize |-> 0, spread |-> 0, trend |-> FALSE]

MakeTick(pos, dev, ts, date, inst, trend) ==
    [positionQty |-> pos, valid |-> TRUE, deviation |-> dev, timestamp |-> ts,
     sessionDate |-> date, tickSize |-> inst[1], spread |-> inst[2],
     trend |-> trend]

\* position at the venue once the decision for a tick is filled completely
Filled(position_qty, d) ==
    IF d.action = "flatten" THEN 0
    ELSE IF d.action = "place"
    THEN IF d.side = "buy" THEN position_qty + d.quantity
         ELSE position_qty - d.quantity
    ELSE position_qty

\* ------------------------------------------------------ session manager
\* SessionManager compares times of day as "%H:%M" strings parsed back to
\* time objects: strftime drops the seconds of current_time, strptime gives
\* a time that compares as its minute of the day
strftime(current_time) ==
    <<current_time \div 3600, (current_time \div 60) % 60>>

strptime(time_str) == time_str[1] * 60 + time_str[2]

\* _is_time_in_session without the overnight branch of lines 44-46
is_time_in_session_NoWrap(current_time_str, session_config) ==
    /\ strptime(session_config.start_time) <= strptime(current_time_str)
    /\ strptime(current_time_str) <= strptime(session_config.end_time)

\* _is_time_in_session with the end of a regular session excluded
is_time_in_session_HalfOpen(current_time_str, session_config) ==
    LET current_time_obj == strptime(current_time_str)
        start_time_obj == strptime(session_config.start_time)
        end_time_obj == strptime(session_config.end_time)
    IN  IF end_time_obj < start_time_obj
        THEN current_time_obj >= start_time_obj
             \/ current_time_obj <= end_time_obj
        ELSE start_time_obj <= current_time_obj
             /\ current_time_obj < end_time_obj

\* SessionManager._is_time_in_session
is_time_in_session(current_time_str, session_config) ==
    LET current_time_obj == strptime(current_time_str)
        start_time_obj == strptime(session_config.start_time)
        end_time_obj == strptime(session_config.end_time)
    IN  IF end_time_obj < start_time_obj
        THEN current_time_obj >= start_time_obj
             \/ current_time_obj <= end_time_obj
        ELSE start_time_obj <= current_time_obj
             /\ current_time_obj <= end_time_obj

\* the loop of get_current_session over the sessions in configuration order,
\* from the i-th on
RECURSIVE session_from(_, _, _)
session_from(manager, current_time_str, i) ==
    IF i > Len(manager.session_config) THEN manager.default_session
    ELSE IF is_time_in_session(current_time_str, manager.session_config[i])
    THEN manager.session_config[i].name
    ELSE session_from(manager, current_time_str, i + 1)

\* SessionManager.get_current_session
get_current_session(manager, current_time) ==
    session_from(manager, strftime(current_time), 1)

\* SessionManager.get_session_config; the default session is a configured one
get_session_config(manager, session_name) ==
    LET known == \E i \in 1..Len(manager.session_config) :
                    manager.session_config[i].name = session_name
        wanted == IF known THEN session_name ELSE manager.default_session
    IN  manager.session_config[
            CHOOSE i \in 1..Len(manager.session_config) :
                manager.session_config[i].name = wanted]

\* _is_time_in_period without the midnight branch of lines 84-85
is_time_in_period_NoWrap(current_time_str, start_time, end_time) ==
    /\ strptime(start_time) <= strptime(current_time_str)
    /\ strptime(current_time_str) <= strptime(end_time)

\* SessionManager._is_time_in_period
is_time_in_period(current_time_str, start_time, end_time) ==
    LET current_time_obj == strptime(current_time_str)
        start_time_obj == strptime(start_time)
        end_time_obj == strptime(end_time)
    IN  IF end_time_obj < start_time_obj
        THEN current_time_obj >= start_time_obj
             \/ current_time_obj <= end_time_obj
        ELSE start_time_obj <= current_time_obj
             /\ current_time_obj <= end_time_obj

\* SessionManager.is_trading_allowed
is_trading_allowed(manager, current_time) ==
    ~\E i \in 1..Len(manager.no_trading_periods) :
        is_time_in_period(strftime(current_time),
                          manager.no_trading_periods[i].start,
                          manager.no_trading_periods[i].end)

\* should_flatten_positions with > for the >= of line 107
should_flatten_positions_Strict(manager, current_time) ==
    LET current_session == get_current_session(manager, current_time)
        flatten_time ==
            get_session_config(manager, current_session).flatten_time
    IN  IF flatten_time = <<>> THEN FALSE
        ELSE strptime(strftime(current_time)) > strptime(flatten_time)

\* SessionManager.should_flatten_positions
should_flatten_positions(manager, current_time) ==
    LET current_session == get_current_session(manager, current_time)
        flatten_time ==
            get_session_config(manager, current_session).flatten_time
    IN  IF flatten_time = <<>> THEN FALSE
        ELSE strptime(strftime(current_time)) >= strptime(flatten_time)

Session(name, start_time, end_time, flatten_time) ==
    [name |-> name, start_time |-> start_time, end_time |-> end_time,
     flatten_time |-> flatten_time]

Period(start, end) == [start |-> start, end |-> end]

\* the session tables the managers are constructed from: day and overnight
\* sessions in either order, with and without flatten_time, adjacent
\* sessions, a gap between sessions, periods inside a day and across midnight
SessionManagers ==
    { [session_config |->
          << Session("ny", <<6, 30>>, <<15, 14>>, <<15, 10>>),
             Session("overnight", <<17, 0>>, <<6, 30>>, <<>>) >>,
       no_trading_periods |-> << Period(<<15, 15>>, <<16, 59>>) >>,
       default_session |-> "overnight"],
      [session_config |->
          << Session("overnight", <<17, 0>>, <<6, 30>>, <<6, 0>>),
             Session("ny", <<6, 30>>, <<15, 14>>, <<>>) >>,
       no_trading_periods |->
          << Period(<<7, 25>>, <<7, 45>>), Period(<<23, 50>>, <<0, 10>>) >>,
       default_session |-> "ny"],
      [session_config |-> << Session("ny", <<6, 30>>, <<15, 14>>, <<15, 10>>) >>,
       no_trading_periods |-> << >>,
       default_session |-> "ny"],
      [session_config |-> << Session("day", <<0, 0>>, <<23, 59>>, <<>>) >>,
       no_trading_periods |-> << Period(<<12, 0>>, <<12, 0>>) >>,
       default_session |-> "day"],
      [session_config |->
          << Session("am", <<6, 30>>, <<12, 0>>, <<>>),
             Session("pm", <<12, 0>>, <<15, 14>>, <<15, 0>>) >>,
       no_trading_periods |->
          << Period(<<23, 50>>, <<0, 10>>), Period(<<15, 15>>, <<16, 59>>) >>,
       default_session |-> "am"] }

\* the times of day asked about, in seconds
CurrentTimes ==
    { HMS(0, 0, 0), HMS(0, 10, 0), HMS(0, 10, 30), HMS(0, 11, 0),
      HMS(6, 0, 0), HMS(6, 29, 59), HMS(6, 30, 0), HMS(6, 30, 30),
      HMS(6, 31, 0), HMS(7, 25, 0), HMS(7, 45, 59), HMS(12, 0, 0),
      HMS(12, 0, 59), HMS(12, 1, 0), HMS(15, 9, 59), HMS(15, 10, 0),
      HMS(15, 14, 0), HMS(15, 14, 30), HMS(15, 15, 0), HMS(16, 59, 59),
      HMS(17, 0, 0), HMS(23, 49, 59), HMS(23, 50, 0), HMS(23, 59, 59) }

NoQuery ==
    [manager |-> [session_config |-> << >>, no_trading_periods |-> << >>,
                  default_session |-> ""],
     current_time |-> 0, current_session |-> "", trading_allowed |-> TRUE,
     should_flatten |-> FALSE]

\* the worker threads of the server's pool that serve /decide
RequestIds == {"A", "B"}

NoRequest == [z |-> 0, decision |-> Hold, pc |-> "done", request |-> NoTick]

\* no order working at the venue
NoOrders == [buy |-> 0, sell |-> 0]

\* tick.symbolName values; "" before any tick
Symbols == {"ES", "NQ"}
NoSymbol == ""

\* StateStore.__init__ and BaseStrategy.__init__: an empty dict
NoStore == [symbols |-> <<>>, symbolName |-> NoSymbol]

\* no scaling order emitted yet
NoScaling == [session |-> 0, run |-> 0]

\* no variance floored yet
NoVariance ==
    [observationCount |-> 0, emaVariance |-> 0, corrected_variance |-> 0,
     effective_variance |-> MIN_VARIANCE_THRESHOLD]

Init ==
    /\ orchestrator \in {"engine", "manager"}
    /\ policy \in LayeredConfigs
    /\ orchestrator = "engine" => policy = SpacedLevels
    /\ state = IF orchestrator = "engine" THEN NewSymbolState
               ELSE NewStrategyState(policy)
    /\ tick = NoTick
    /\ zScore = 0
    /\ decision = Hold
    /\ sessionReset = ResetRecord(NewSymbolState, NoDate)
    /\ venuePos = 0
    /\ execution = "none"
    /\ requests = [id \in RequestIds |-> NoRequest]
    /\ serial = [state |-> state, first |-> Hold, second |-> Hold]
    /\ resolver = NoQuery
    /\ floored = NoVariance
    /\ unfilled = NoOrders
    /\ store = NoStore
    /\ scaled = NoScaling

\* VWAPReversionStrategy.decide without the marking of lines 69-72
SessionStrategyDecide_NeverMarks(s, t) ==
    LET counted == [s EXCEPT !.observationCount = @ + 1]
        ind == update_ewma_z(counted, t.deviation)
        avoid == should_avoid_mean_reversion(t.timestamp, t.trend)
        sent == IF Abs(t.positionQty) # 1 THEN FALSE
                ELSE counted.scaling_order_sent
        d == SessionDecide(ind.z, t.positionQty, t.spread,
                           counted.observationCount, ind.emaVariance,
                           t.tickSize, avoid, sent, NoTime)
    IN  [state |-> [counted EXCEPT
                       !.emaDeviation = ind.emaDeviation,
                       !.emaVariance = ind.emaVariance,
                       !.scaling_order_sent = sent],
         z |-> ind.z,
         decision |-> d]

\* VWAPReversionStrategy.decide (strategies/vwap_reversion): the state it
\* leaves, the z-score and the decision
SessionStrategyDecide(s, t) ==
    LET counted == [s EXCEPT !.observationCount = @ + 1]
        ind == update_ewma_z(counted, t.deviation)
        avoid == should_avoid_mean_reversion(t.timestamp, t.trend)
        sent == IF Abs(t.positionQty) # 1 THEN FALSE
                ELSE counted.scaling_order_sent
        d == SessionDecide(ind.z, t.positionQty, t.spread,
                           counted.observationCount, ind.emaVariance,
                           t.tickSize, avoid, sent, NoTime)
    IN  [state |-> [counted EXCEPT
                       !.emaDeviation = ind.emaDeviation,
                       !.emaVariance = ind.emaVariance,
                       !.scaling_order_sent =
                           IF /\ d.action = "place"
                              /\ Abs(t.positionQty) = 1
                              /\ Abs(ind.z) >= Z_SCORE_SECOND_ENTRY
                           THEN TRUE ELSE sent],
         z |-> ind.z,
         decision |-> d]

\* VwapReversionStrategy.decide (engine/strategies): the state it leaves,
\* the z-score and the decision
LayeredStrategyDecide(p, s, t) ==
    LET counted == [s EXCEPT !.observationCount = @ + 1]
        ind == update_ewma_z(counted, t.deviation)
        out == LayeredDecide(p, ind.z, t.positionQty, counted.observationCount,
                             ind.emaVariance, t.tickSize,
                             counted.entry_levels_triggered)
    IN  [state |-> [counted EXCEPT
                       !.emaDeviation = ind.emaDeviation,
                       !.emaVariance = ind.emaVariance,
                       !.expected_position = Filled(t.positionQty, out.decision),
                       !.entry_levels_triggered = out.levels],
         z |-> ind.z,
         decision |-> out.decision]

\* decide with the position tracking of line 97 moved before the restriction
\* check of line 85
EngineCore_ValidatesFirst(t) ==
    /\ orchestrator = "engine"
    /\ \E r \in {validate_and_update_position(
                     maybe_reset_session(state, t.sessionDate),
                     t.positionQty)} :
         IF is_restricted_hours(t.timestamp)
         THEN /\ state' = r
              /\ zScore' = 0
              /\ decision' = IF t.positionQty # 0 THEN Flatten ELSE Hold
         ELSE /\ r.observationCount < MaxObs
              /\ \E out \in {SessionStrategyDecide(r, t)} :
                    /\ state' = out.state
                    /\ zScore' = out.z
                    /\ decision' = out.decision
    /\ tick' = t
    /\ sessionReset' = ResetRecord(state, t.sessionDate)
    /\ UNCHANGED <<orchestrator, policy, requests, serial, resolver, floored, unfilled, store, scaled>>

\* DecisionEngine.decide up to the decision of the strategy (lines 80-100)
EngineCore(t) ==
    /\ orchestrator = "engine"
    /\ \E r \in {maybe_reset_session(state, t.sessionDate)} :
         IF is_restricted_hours(t.timestamp)
         THEN /\ state' = r
              /\ zScore' = 0
              /\ decision' = IF t.positionQty # 0 THEN Flatten ELSE Hold
         ELSE /\ r.observationCount < MaxObs
              /\ \E out \in {SessionStrategyDecide(
                                validate_and_update_position(r, t.positionQty),
                                t)} :
                    /\ state' = out.state
                    /\ zScore' = out.z
                    /\ decision' = out.decision
    /\ tick' = t
    /\ sessionReset' = ResetRecord(state, t.sessionDate)
    /\ UNCHANGED <<orchestrator, policy, requests, serial, resolver, floored, unfilled, store, scaled>>

\* DecisionEngine.decide with TRADING_PLATFORM = "NINJATRADER" (config.py):
\* the decision is returned, nothing is sent
EngineDecide(t) ==
    /\ EngineCore(t)
    /\ venuePos' = Filled(t.positionQty, decision')
    /\ execution' = "none"

\* StrategyManager.process_tick with the one registered strategy: what it
\* does to the program's own state
ProcessCore(t) ==
    /\ orchestrator = "manager"
    /\ \E r \in {maybe_reset_session(state, t.sessionDate)} :
         /\ r.observationCount < MaxObs
         /\ \E out \in {LayeredStrategyDecide(policy, r, t)} :
              /\ state' = out.state
              /\ zScore' = out.z
              /\ decision' = out.decision
    /\ tick' = t
    /\ sessionReset' = ResetRecord(state, t.sessionDate)
    /\ execution' = "none"
    /\ UNCHANGED <<orchestrator, policy, requests, serial, resolver, floored, store, scaled>>

\* process_tick, the venue filling the returned order at once
ProcessTick(t) ==
    /\ ProcessCore(t)
    /\ venuePos' = Filled(t.positionQty, decision')
    /\ UNCHANGED unfilled

ManagerTimestamps == {HMS(12, 0, 0)}
ManagerInstruments == {<<0, 25>>, <<1000, 25>>}

EngineTick(pos) ==
    \E dev \in Deviations, date \in SessionDates, in \in EngineInputs :
        EngineDecide(MakeTick(pos, dev, in[1], date, in[2], in[3]))

ManagerTick(pos) ==
    \E dev \in Deviations, ts \in ManagerTimestamps, date \in SessionDates,
       inst \in ManagerInstruments :
        ProcessTick(MakeTick(pos, dev, ts, date, inst, FALSE))

\* the venue reports any position
EngineNext == \E pos \in EnginePositions : EngineTick(pos)
ManagerNext == \E pos \in Positions : ManagerTick(pos)

Next ==
    \/ EngineNext
    \/ ManagerNext

Spec == Init /\ [][Next]_vars

TypeOK ==
    /\ orchestrator \in {"engine", "manager"}
    /\ policy \in PolicyType
    /\ state \in (IF orchestrator = "engine" THEN SymbolStateType
                  ELSE StrategyStateType)
    /\ tick \in TickType
    /\ zScore \in Int
    /\ decision \in DecisionType
    /\ sessionReset \in ResetType
    /\ venuePos \in Int
    /\ execution \in {"none", "true", "false", "raised"}
    /\ requests \in [RequestIds -> RequestType]
    /\ serial.first \in DecisionType /\ serial.second \in DecisionType
    /\ resolver \in ResolverType
    /\ floored \in FlooredType
    /\ unfilled \in UnfilledType
    /\ store.symbolName \in Symbols \cup {NoSymbol}
    /\ DOMAIN store.symbols \subseteq Symbols
    /\ scaled \in [session : 0..2, run : 0..2]

InitEngine == Init /\ orchestrator = "engine"
InitManager == Init /\ orchestrator = "manager"

\* ticks served by DecisionEngine.decide
SpecEngine == InitEngine /\ [][EngineNext]_vars

\* ticks served by StrategyManager.process_tick
SpecManager == InitManager /\ [][ManagerNext]_vars

\* the same, the venue filling every order completely before the next tick
FilledNext == ManagerTick(venuePos)

SpecFilled == InitManager /\ [][FilledNext]_vars

\* ------------------------------------------------- unparseable timestamps
\* a timestampIso that datetime.fromisoformat rejects
BadTime == -2

\* the entry of a strategy that process_tick left out of its list
NoDecision ==
    [action |-> "none", side |-> "none", orderType |-> "none", quantity |-> 0,
     level |-> 0]

\* VwapReversionStrategy.decide up to the ValueError of fromisoformat: the
\* observation is counted, the EWMA fields updated and the expected position
\* synchronised before the timestamp is parsed
LayeredStrategyRaise(s, t) ==
    LET counted == [s EXCEPT !.observationCount = @ + 1]
        ind == update_ewma_z(counted, t.deviation)
    IN  [state |-> [counted EXCEPT
                       !.emaDeviation = ind.emaDeviation,
                       !.emaVariance = ind.emaVariance,
                       !.expected_position = t.positionQty],
         z |-> ind.z,
         decision |-> NoDecision]

\* StrategyManager.process_tick on a tick whose timestampIso does not parse:
\* the except clause logs the error and goes on to the next strategy, so the
\* list returned has no entry for this one
ProcessTickUnparsed(t) ==
    /\ orchestrator = "manager"
    /\ t.timestamp = BadTime
    /\ \E r \in {maybe_reset_session(state, t.sessionDate)} :
         /\ r.observationCount < MaxObs
         /\ \E out \in {LayeredStrategyRaise(r, t)} :
              /\ state' = out.state
              /\ zScore' = out.z
              /\ decision' = out.decision
    /\ tick' = t
    /\ sessionReset' = ResetRecord(state, t.sessionDate)
    /\ venuePos' = Filled(t.positionQty, decision')
    /\ execution' = "none"
    /\ UNCHANGED <<orchestrator, policy, requests, serial, resolver, floored, unfilled, store, scaled>>

UnparsedTick(pos) ==
    \E dev \in Deviations, date \in SessionDates :
        ProcessTickUnparsed(MakeTick(pos, dev, BadTime, date, <<0, 25>>, FALSE))

UnparsedNext == \E pos \in Positions : UnparsedTick(pos)

AnyTickNext ==
    \/ ManagerNext
    \/ UnparsedNext

\* ticks served by StrategyManager.process_tick, timestamps parseable or not
SpecAnyTick == InitManager /\ [][AnyTickNext]_vars

\* ------------------------------------------------------ direct execution
\* what the order placer of the execution platform does with an order
Collaborators == {"accepts", "rejects", "raises"}

\* a send_decision whose except clause is missing: the exception of the
\* order placer leaves the method
send_decision_Unguarded(d, collaborator) ==
    IF d.action = "hold" THEN "true"
    ELSE IF d.action = "flatten" THEN "true"
    ELSE IF collaborator = "raises" THEN "raised" ELSE "true"

\* TopStepPlatform.send_decision: True for hold and flatten; a place order
\* is handed to the order placer, True when the call returns (whatever order
\* id it returns), False when it raises
send_decision(d, collaborator) ==
    IF d.action = "hold" THEN "true"
    ELSE IF d.action = "flatten" THEN "true"
    ELSE IF collaborator = "raises" THEN "false" ELSE "true"

\* DecisionEngine.decide with TRADING_PLATFORM = "TOPSTEP": the decision of
\* the strategy is sent to the platform before it is returned; a tick inside
\* a restricted window returns before that
EngineDecideDirect(t, collaborator) ==
    /\ orchestrator = "engine"
    /\ \E r \in {maybe_reset_session(state, t.sessionDate)} :
         IF is_restricted_hours(t.timestamp)
         THEN /\ state' = r
              /\ zScore' = 0
              /\ decision' = IF t.positionQty # 0 THEN Flatten ELSE Hold
              /\ execution' = "none"
         ELSE /\ r.observationCount < MaxObs
              /\ \E out \in {SessionStrategyDecide(
                                validate_and_update_position(r, t.positionQty),
                                t)} :
                   \E success \in {send_decision(out.decision, collaborator)} :
                      /\ state' = out.state
                      /\ zScore' = out.z
                      /\ decision' = IF success = "raised" THEN NoDecision
                                     ELSE out.decision
                      /\ execution' = success
    /\ tick' = t
    /\ sessionReset' = ResetRecord(state, t.sessionDate)
    /\ venuePos' = IF execution' = "true" /\ collaborator = "accepts"
                   THEN Filled(t.positionQty, decision')
                   ELSE t.positionQty
    /\ UNCHANGED <<orchestrator, policy, requests, serial, resolver, floored, unfilled, store, scaled>>

DirectInputs ==
    { <<NoTime, <<0, 25>>>>, <<HMS(21, 0, 0), <<0, 25>>>>,
      <<HMS(7, 30, 0), <<0, 25>>>> }

DirectTick(pos) ==
    \E dev \in Deviations, date \in SessionDates, in \in DirectInputs,
       collaborator \in Collaborators :
        EngineDecideDirect(MakeTick(pos, dev, in[1], date, in[2], FALSE),
                           collaborator)

\* the venue reports the position the orders sent so far have left
DirectNext == DirectTick(venuePos)

\* ticks served by DecisionEngine.decide with direct execution configured
SpecDirect == InitEngine /\ [][DirectNext]_vars

\* ------------------------------------------------- concurrent requests
\* /decide is a plain def route: the server runs each request in a thread of
\* its pool, and all of them use the one module-level StrategyManager.
\* Nothing in process_tick, VwapReversionStrategy.decide or Policy.decide
\* takes a lock, so a thread can be suspended between two statements, in
\* particular at the logging call of policy.py line 84 between the test of
\* a level's flag and its assignment.

\* what handling first and then second in this order gives
Serial(s, first, second) ==
    LET a == LayeredStrategyDecide(policy,
                 maybe_reset_session(s, first.sessionDate), first)
        b == LayeredStrategyDecide(policy,
                 maybe_reset_session(a.state, second.sessionDate), second)
    IN  [state |-> b.state, first |-> a.decision, second |-> b.decision]

InFlight == \E id \in RequestIds : requests[id].pc # "done"

\* two requests for the symbol arrive, A before B
Arrive(first, second) ==
    /\ orchestrator = "manager"
    /\ ~InFlight
    /\ maybe_reset_session(state, first.sessionDate).observationCount + 2
         <= MaxObs
    /\ requests' =
         [id \in RequestIds |->
            [z |-> 0, decision |-> Hold, pc |-> "start",
             request |-> IF id = "A" THEN first ELSE second]]
    /\ serial' = Serial(state, first, second)
    /\ UNCHANGED <<orchestrator, policy, state, tick, zScore, decision,
                   sessionReset, venuePos, execution, resolver, floored, unfilled, store, scaled>>

\* process_tick lines 35-38 and decide line 26: session reset, then
\* state.observationCount += 1
Count(id) ==
    /\ requests[id].pc = "start"
    /\ state' = [maybe_reset_session(state, requests[id].request.sessionDate)
                    EXCEPT !.observationCount = @ + 1]
    /\ requests' = [requests EXCEPT ![id].pc = "counted"]
    /\ UNCHANGED <<orchestrator, policy, tick, zScore, decision, sessionReset,
                   venuePos, execution, serial, resolver, floored, unfilled, store, scaled>>

\* decide line 27: update_ewma_z on the state as it is now
Score(id) ==
    /\ requests[id].pc = "counted"
    /\ \E ind \in {update_ewma_z(state, requests[id].request.deviation)} :
         /\ state' = [state EXCEPT !.emaDeviation = ind.emaDeviation,
                                   !.emaVariance = ind.emaVariance]
         /\ requests' = [requests EXCEPT ![id].z = ind.z,
                                         ![id].pc = "scored"]
    /\ UNCHANGED <<orchestrator, policy, tick, zScore, decision, sessionReset,
                   venuePos, execution, serial, resolver, floored, unfilled, store, scaled>>

\* decide lines 33-47 and Policy.decide up to the logging call of line 84:
\* a hold or a flatten is complete here; for an order the flag of its level
\* has been tested and is not yet assigned
Check(id) ==
    /\ requests[id].pc = "scored"
    /\ LET t == requests[id].request
           out == LayeredDecide(policy, requests[id].z, t.positionQty,
                                state.observationCount, state.emaVariance,
                                t.tickSize, state.entry_levels_triggered)
       IN  IF out.decision.action = "place"
           THEN /\ state' =
                     [state EXCEPT
                        !.expected_position = t.positionQty,
                        !.entry_levels_triggered =
                            Reconcile(policy, t.positionQty, @)]
                /\ requests' = [requests EXCEPT ![id].decision = out.decision,
                                                ![id].pc = "checked"]
           ELSE /\ state' =
                     [state EXCEPT
                        !.expected_position = Filled(t.positionQty, out.decision),
                        !.entry_levels_triggered = out.levels]
                /\ requests' = [requests EXCEPT ![id].decision = out.decision,
                                                ![id].pc = "done"]
    /\ UNCHANGED <<orchestrator, policy, tick, zScore, decision, sessionReset,
                   venuePos, execution, serial, resolver, floored, unfilled, store, scaled>>

\* Policy.decide lines 85-92 (107-114) and decide lines 50-54: the flag of
\* the level is assigned, the order returned, expected_position moved by its
\* quantity
Commit(id) ==
    /\ requests[id].pc = "checked"
    /\ LET d == requests[id].decision
       IN  state' =
             [state EXCEPT
                !.expected_position =
                    IF d.side = "buy" THEN @ + d.quantity ELSE @ - d.quantity,
                !.entry_levels_triggered =
                    IF d.side = "buy"
                    THEN [@ EXCEPT !.long[d.level] = TRUE]
                    ELSE [@ EXCEPT !.short[d.level] = TRUE]]
    /\ requests' = [requests EXCEPT ![id].pc = "done"]
    /\ UNCHANGED <<orchestrator, policy, tick, zScore, decision, sessionReset,
                   venuePos, execution, serial, resolver, floored, unfilled, store, scaled>>

\* the two requests report the same position and session date
ArriveAny ==
    \E pos \in Positions, devA \in Deviations, devB \in Deviations,
       date \in SessionDates :
        Arrive(MakeTick(pos, devA, HMS(12, 0, 0), date, <<0, 25>>, FALSE),
               MakeTick(pos, devB, HMS(12, 0, 0), date, <<0, 25>>, FALSE))

ConcurrentNext ==
    \/ ArriveAny
    \/ \E id \in RequestIds : Count(id)
    \/ \E id \in RequestIds : Score(id)
    \/ \E id \in RequestIds : Check(id)
    \/ \E id \in RequestIds : Commit(id)

\* pairs of requests for one symbol served by the thread pool
SpecConcurrent == InitManager /\ [][ConcurrentNext]_vars

\* ------------------------------------------------------ session queries
\* SessionManager.log_session_info: the session, the trading permission and
\* the flatten flag of one time of day
Resolve(manager, current_time) ==
    /\ resolver' =
         [manager |-> manager,
          current_time |-> current_time,
          current_session |-> get_current_session(manager, current_time),
          trading_allowed |-> is_trading_allowed(manager, current_time),
          should_flatten |-> should_flatten_positions(manager, current_time)]
    /\ UNCHANGED <<orchestrator, policy, state, tick, zScore, decision,
                   sessionReset, venuePos, execution, requests, serial,
                   floored, unfilled, store, scaled>>

ResolveNext ==
    \E manager \in SessionManagers, current_time \in CurrentTimes :
        Resolve(manager, current_time)

\* queries to a SessionManager
SpecSession == InitEngine /\ [][ResolveNext]_vars

\* ------------------------------------------------------- restricted hours
\* times of day at, just inside and just outside the ends of both windows
RestrictedEdges ==
    {HMS(7, 24, 59), HMS(7, 25, 0), HMS(7, 45, 0), HMS(7, 45, 1),
     HMS(15, 14, 59), HMS(15, 15, 0), HMS(17, 0, 0), HMS(17, 0, 1)}

\* short, flat and long
EdgePositions == {-1, 0, 1}
EdgeDeviations == {-1000 * Scale, 1000 * Scale}

EdgeTick(pos) ==
    \E dev \in EdgeDeviations, date \in SessionDates, ts \in RestrictedEdges :
        EngineDecide(MakeTick(pos, dev, ts, date, <<0, 25>>, FALSE))

EdgeNext == \E pos \in EdgePositions : EdgeTick(pos)

\* DecisionEngine.decide on ticks around the ends of the restricted windows
SpecRestricted == InitEngine /\ [][EdgeNext]_vars

\* ---------------------------------------------------------- session dates
\* sessionDate strings a client may send: well-formed, empty, implausible
\* and of the wrong length
AnyDates == SessionDates \cup {EmptyDate, FarDate, ShortDate}

DateTick(pos) ==
    \E dev \in EdgeDeviations, date \in AnyDates :
        EngineDecide(MakeTick(pos, dev, NoTime, date, <<0, 25>>, FALSE))

DateNext == \E pos \in EdgePositions : DateTick(pos)

\* DecisionEngine.decide on ticks with any sessionDate string
SpecDates == InitEngine /\ [][DateNext]_vars

\* ---------------------------------------------------------- delayed fills
MaxUnfilled == 3        \* quantity per side the venue keeps working

\* the working orders once the decision of a tick has been sent
Working(orders, d) ==
    IF d.action = "place"
    THEN IF d.side = "buy" THEN [orders EXCEPT !.buy = @ + d.quantity]
         ELSE [orders EXCEPT !.sell = @ + d.quantity]
    ELSE orders

\* process_tick on a tick that reports what the venue has filled so far;
\* the order returned starts working, a flatten closes the position at once
ProcessTickLagged(t) ==
    /\ t.positionQty = venuePos
    /\ ProcessCore(t)
    /\ unfilled' = Working(unfilled, decision')
    /\ unfilled'.buy <= MaxUnfilled
    /\ unfilled'.sell <= MaxUnfilled
    /\ venuePos' = IF decision'.action = "flatten" THEN 0 ELSE venuePos

LaggedTick ==
    \E dev \in Deviations, ts \in ManagerTimestamps, date \in SessionDates :
        ProcessTickLagged(MakeTick(venuePos, dev, ts, date, <<0, 25>>, FALSE))

\* the venue fills part or all of a working buy order
FillBuy(quantity) ==
    /\ quantity <= unfilled.buy
    /\ unfilled' = [unfilled EXCEPT !.buy = @ - quantity]
    /\ venuePos' = venuePos + quantity
    /\ UNCHANGED <<orchestrator, policy, state, tick, zScore, decision,
                   sessionReset, execution, requests, serial, resolver,
                   floored, store, scaled>>

FillSell(quantity) ==
    /\ quantity <= unfilled.sell
    /\ unfilled' = [unfilled EXCEPT !.sell = @ - quantity]
    /\ venuePos' = venuePos - quantity
    /\ UNCHANGED <<orchestrator, policy, state, tick, zScore, decision,
                   sessionReset, execution, requests, serial, resolver,
                   floored, store, scaled>>

LaggedNext ==
    \/ LaggedTick
    \/ \E quantity \in 1..MaxUnfilled : FillBuy(quantity)
    \/ \E quantity \in 1..MaxUnfilled : FillSell(quantity)

\* process_tick with a venue that fills orders any number of ticks late
SpecLagged == InitManager /\ [][LaggedNext]_vars

\* -------------------------------------------------------- variance floor
\* observation counts with no bias correction to speak of (1), with the
\* strongest one after it (2), and past the correction period
FloorObservations == {1, 2, BIAS_CORRECTION_PERIOD}

\* update_ewma_z lines 19-28: the variance bias-corrected and floored
EffectiveVariance(observationCount, emaVariance) ==
    /\ floored' =
         [observationCount |-> observationCount,
          emaVariance |-> emaVariance,
          corrected_variance |->
              corrected_variance(observationCount, emaVariance),
          effective_variance |->
              effective_variance(observationCount, emaVariance)]
    /\ UNCHANGED <<orchestrator, policy, state, tick, zScore, decision,
                   sessionReset, venuePos, execution, requests, serial,
                   resolver, unfilled, store, scaled>>

FloorNext ==
    \E observationCount \in FloorObservations, emaVariance \in 0..MaxVariance :
        EffectiveVariance(observationCount, emaVariance)

\* the variance floor fed with variances around the threshold
SpecFloor == InitEngine /\ [][FloorNext]_vars

\* ================================================================ claims
PastGuards ==
    /\ tick.valid
    /\ state.observationCount >= WarmupObservations
    /\ ~VarianceGuard(state.emaVariance, tick.tickSize)

\* C1 (SpecFilled): when every place order is filled completely before the
\* next tick and a flatten leaves the position at 0, the position at the
\* venue never exceeds max_total_position in absolute value, and no place
\* decision is returned for a tick that reports |positionQty| at or above
\* max_total_position.
C1_PositionWithinCap ==
    /\ Abs(venuePos) <= policy.max_total_position
    /\ tick.valid /\ Abs(tick.positionQty) >= policy.max_total_position
           => decision.action # "place"

\* a level's threshold is met past the guards and the exit, its flag is
\* clear, and its quantity does not fit under the cap: nothing is placed
C1_Witness ==
    /\ PastGuards
    /\ Abs(zScore) >= policy.z_exit
    /\ decision.action = "hold"
    /\ \E i \in 1..Len(policy.z_entry_levels) :
          /\ zScore < -policy.z_entry_levels[i]
          /\ ~state.entry_levels_triggered.long[i]
          /\ tick.positionQty + policy.entry_quantities[i]
                 > policy.max_total_position
          /\ 0 < tick.positionQty
          /\ tick.positionQty < policy.max_total_position

\* the tick handled last reached Policy.decide
PolicyCalled ==
    /\ tick.valid
    /\ orchestrator = "engine" => ~is_restricted_hours(tick.timestamp)

\* the exit threshold the policy called for the tick compares |z| with
ZExit ==
    IF orchestrator = "manager" THEN policy.z_exit
    ELSE get_session_thresholds(NoTime).z_exit

ExitCondition == tick.positionQty # 0 /\ Abs(zScore) < ZExit

\* C2 as stated: every policy call with positionQty # 0 and |zScore| < zExit
\* returns flatten, whatever the other guards say.
C2_Original == PolicyCalled /\ ExitCondition => decision.action = "flatten"

\* C2 (Spec), amended: every policy call that passes the warmup and variance
\* guards (and, in the session-threshold policy, the spread guard) with
\* positionQty # 0 and |zScore| < zExit returns flatten, also when the same
\* z-score satisfies an entry threshold.
C2_ExitPrecedence ==
    /\ PolicyCalled
    /\ PastGuards
    /\ orchestrator = "engine" => ~SpreadGuard(tick.spread, tick.tickSize)
    /\ ExitCondition
    => decision.action = "flatten"

\* a flatten although the first entry level's threshold is met, its flag is
\* clear and its quantity fits under the cap
C2_Witness ==
    /\ orchestrator = "manager"
    /\ PastGuards
    /\ ExitCondition
    /\ decision.action = "flatten"
    /\ zScore < -policy.z_entry_levels[1]
    /\ ~state.entry_levels_triggered.long[1]
    /\ Abs(tick.positionQty) < policy.max_total_position
    /\ tick.positionQty + policy.entry_quantities[1] <= policy.max_total_position

\* C3 as stated: every tick handled while observationCount is below the
\* warmup count gets hold, whatever the z-score, the position and the time
\* of day.
C3_Original ==
    tick.valid /\ state.observationCount < WarmupObservations
        => decision.action = "hold"

\* C3 (Spec), amended: every tick that reaches the policy (in
\* DecisionEngine.decide: whose time of day is outside the restricted
\* windows) while observationCount, that tick counted, is below the warmup
\* count gets hold, whatever the z-score and the position.
C3_WarmupGating ==
    PolicyCalled /\ state.observationCount < WarmupObservations
        => decision = Hold

\* a hold during warmup although the z-score is beyond every entry threshold
\* in force and the position is flat
C3_Witness ==
    /\ PolicyCalled
    /\ state.observationCount < WarmupObservations
    /\ tick.positionQty = 0
    /\ Abs(zScore) > get_session_thresholds(NoTime).z_entry
    /\ Abs(zScore) > policy.z_entry_levels[1]
    /\ ~VarianceGuard(state.emaVariance, tick.tickSize)
    /\ ~SpreadGuard(tick.spread, tick.tickSize)
    /\ decision = Hold

Levels == 1..Len(policy.z_entry_levels)

\* the decision of the step is an order for level i on the given side
Fires(side, i) ==
    decision'.action = "place" /\ decision'.side = side /\ decision'.level = i

\* the step's call of Policy.decide cleared the flags at lines 70-76
ReconciliationReset ==
    tick'.positionQty # ExpectedPosition(policy, state.entry_levels_triggered)

InBand(z, side, i) ==
    /\ IF side = "buy" THEN z < -policy.z_entry_levels[i]
       ELSE z > policy.z_entry_levels[i]
    /\ i < Len(policy.z_entry_levels) =>
          IF side = "buy" THEN z >= -policy.z_entry_levels[i + 1]
          ELSE z <= policy.z_entry_levels[i + 1]

\* C5 as stated (SpecManager): directly after a tick on which level i fired
\* from a flat position, a next tick whose z-score is in the same band
\* (beyond threshold i, not beyond threshold i + 1, and not inside the exit
\* band) gets hold, both when it reports the filled position and when it
\* still reports the position of the previous tick.
C5_Original ==
    [][\A i \in Levels :
          /\ decision.action = "place" /\ decision.level = i
          /\ tick.positionQty = 0
          /\ InBand(zScore', decision.side, i)
          /\ Abs(zScore') >= policy.z_exit
          /\ tick'.positionQty \in {venuePos, tick.positionQty}
          => decision'.action = "hold"]_vars

\* the side an entry order for z has, and the flags of that side
EntrySide(z) == IF z < 0 THEN "buy" ELSE "sell"
SideFlags(flags, side) == IF side = "buy" THEN flags.long ELSE flags.short

\* levels whose threshold z is beyond, whose flag is clear in flags and
\* whose quantity keeps the position pos within the cap
Eligible(z, pos, flags) ==
    { j \in Levels :
        /\ IF z < 0 THEN z < -policy.z_entry_levels[j]
           ELSE z > policy.z_entry_levels[j]
        /\ ~SideFlags(flags, EntrySide(z))[j]
        /\ IF z < 0
           THEN pos + policy.entry_quantities[j] <= policy.max_total_position
           ELSE pos - policy.entry_quantities[j] >= -policy.max_total_position }

\* flags with the one flag of level i on the given side set
WithFlag(flags, side, i) ==
    IF side = "buy"
    THEN [long |-> [flags.long EXCEPT ![i] = TRUE], short |-> flags.short]
    ELSE [long |-> flags.long, short |-> [flags.short EXCEPT ![i] = TRUE]]

\* the order of the step is the one for the lowest level eligible under
\* flags, and the flags it leaves are flags with that level's flag set
LowestEligibleOrdered(flags) ==
    LET i == decision'.level
        E == Eligible(zScore', tick'.positionQty, flags)
    IN  /\ zScore' # 0
        /\ decision'.side = EntrySide(zScore')
        /\ decision'.orderType = "market"
        /\ i \in E /\ \A j \in E : i <= j
        /\ decision'.quantity = policy.entry_quantities[i]
        /\ state'.entry_levels_triggered
              = WithFlag(flags, EntrySide(zScore'), i)

\* C6 as stated (SpecManager): an order is for the lowest-indexed level that
\* was untriggered before the call and is eligible, with its quantity, side
\* by the sign of z, market; exactly that flag becomes true and every other
\* flag is as it was before the call.
C6_Original ==
    [][decision'.action = "place"
          => LowestEligibleOrdered(state.entry_levels_triggered)]_vars

\* C6 (SpecManager), amended: a call returns one decision; an order is for
\* the lowest-indexed eligible level, eligibility judged on the flags as the
\* reconciliation of that call leaves them (all false when the reported
\* position differs from the one the flags imply, unchanged otherwise),
\* with that level's quantity, buy for z < 0 and sell for z > 0, market;
\* that level's flag becomes true and every other flag is as the
\* reconciliation left it.
C6_LowestEligibleLevel ==
    [][decision'.action = "place"
          => LowestEligibleOrdered(
                 IF ReconciliationReset THEN ClearedLevels(policy)
                 ELSE state.entry_levels_triggered)]_vars

\* an order for level 1 at a z-score beyond the thresholds of levels 1 and
\* 2, both untriggered and both fitting under the cap
C6_Witness ==
    /\ decision.action = "place"
    /\ decision.level = 1
    /\ zScore < -policy.z_entry_levels[2]
    /\ state.entry_levels_triggered.long = <<TRUE, FALSE>>
    /\ tick.positionQty + policy.entry_quantities[2] <= policy.max_total_position

\* levels whose threshold z is beyond and whose flag is clear in flags
MetUntriggered(z, flags) ==
    { j \in Levels :
        /\ IF z < 0 THEN z < -policy.z_entry_levels[j]
           ELSE z > policy.z_entry_levels[j]
        /\ ~SideFlags(flags, EntrySide(z))[j] }

\* the flags the step's call evaluates the entry levels on
ReconciledFlags ==
    IF ReconciliationReset THEN ClearedLevels(policy)
    ELSE state.entry_levels_triggered

\* the step's call passes the guards, the exit and the cap check, and the
\* first met, untriggered level of the side of z does not fit under the cap
FirstMetLevelBlocked(first) ==
    /\ state'.observationCount >= WarmupObservations
    /\ ~VarianceGuard(state'.emaVariance, tick'.tickSize)
    /\ ~(Abs(zScore') < policy.z_exit /\ tick'.positionQty # 0)
    /\ Abs(tick'.positionQty) < policy.max_total_position
    /\ zScore' # 0
    /\ first \in MetUntriggered(zScore', ReconciledFlags)
    /\ \A j \in MetUntriggered(zScore', ReconciledFlags) : first <= j
    /\ first \notin Eligible(zScore', tick'.positionQty, ReconciledFlags)

\* C7 as stated (SpecManager): when the first untriggered level whose
\* threshold is met would exceed the cap, it is not marked triggered, no
\* higher level is actioned, and the decision is hold.
C7_Original ==
    [][\A first \in Levels :
          FirstMetLevelBlocked(first)
          => /\ decision'.action = "hold"
             /\ state'.entry_levels_triggered = ReconciledFlags]_vars

\* C7 (SpecManager), amended: when the first untriggered level whose
\* threshold is met would exceed the cap, it is not marked triggered and the
\* loop goes on to the higher levels: the lowest higher level that is met,
\* untriggered and fits under the cap is ordered and marked; the decision is
\* hold, with no flag marked, only when there is none.
C7_BlockedLevelSkipped ==
    [][\A first \in Levels :
          FirstMetLevelBlocked(first)
          => LET E == Eligible(zScore', tick'.positionQty, ReconciledFlags)
             IN  /\ ~SideFlags(state'.entry_levels_triggered,
                               EntrySide(zScore'))[first]
                 /\ IF E = {}
                    THEN /\ decision' = Hold
                         /\ state'.entry_levels_triggered = ReconciledFlags
                    ELSE /\ decision'.action = "place"
                         /\ decision'.level \in E
                         /\ \A j \in E : decision'.level <= j
                         /\ decision'.level > first]_vars

\* level 2 ordered at a z-score beyond the threshold of level 1, whose flag
\* is clear and whose quantity does not fit under the cap
C7_Witness ==
    /\ decision.action = "place"
    /\ decision.side = "buy"
    /\ decision.level = 2
    /\ zScore < -policy.z_entry_levels[1]
    /\ state.entry_levels_triggered.long = <<FALSE, TRUE>>
    /\ tick.positionQty + policy.entry_quantities[1] > policy.max_total_position

\* C8 (SpecManager): after a tick answered with the exit flatten
\* (|zScore| < z_exit, positionQty # 0) every entry-level flag of both
\* directions is false in the symbol's state.
C8_ExitResetsFlags ==
    decision.action = "flatten"
        => /\ \A i \in Levels :
                /\ ~state.entry_levels_triggered.long[i]
                /\ ~state.entry_levels_triggered.short[i]
           /\ state.expected_position = 0

\* an exit flatten of a long position past the guards, at a z-score still
\* beyond the first entry threshold
C8_Witness ==
    /\ PastGuards
    /\ decision.action = "flatten"
    /\ tick.positionQty > 0
    /\ Abs(zScore) < policy.z_exit
    /\ zScore < -policy.z_entry_levels[1]
    /\ state.entry_levels_triggered = ClearedLevels(policy)

\* the tick carries a time of day inside one of the configured restricted
\* windows, 07:25-07:45 and 15:15-17:00
InRestrictedWindow ==
    /\ tick.valid
    /\ tick.timestamp # NoTime
    /\ \/ HMS(7, 25, 0) <= tick.timestamp /\ tick.timestamp <= HMS(7, 45, 0)
       \/ HMS(15, 15, 0) <= tick.timestamp /\ tick.timestamp <= HMS(17, 0, 0)

\* C9 as stated: a tick whose time of day is inside a restricted window gets
\* hold, whatever the position, the z-score and the observation count.
C9_Original == InRestrictedWindow => decision.action = "hold"

\* C9 (SpecEngine), amended: a tick whose time of day is inside a restricted
\* window never gets an order: it gets flatten when it reports a non-zero
\* position and hold when it reports none, whatever the deviation and the
\* observation count.
C9_RestrictedWindow ==
    InRestrictedWindow
        => decision = IF tick.positionQty # 0 THEN Flatten ELSE Hold

\* past warmup, flat, at a deviation that is ordered on outside the window:
\* hold inside it
C9_Witness ==
    /\ InRestrictedWindow
    /\ state.observationCount >= WarmupObservations
    /\ tick.positionQty = 0
    /\ tick.deviation # 0
    /\ decision = Hold

\* the step handles a tick whose sessionDate differs from the stored one
Rollover ==
    /\ state.currentSessionDate # NoDate
    /\ tick'.sessionDate # state.currentSessionDate

\* C10 (SpecEngine): when a tick's sessionDate differs from the stored one,
\* the reset sets observationCount to 0, emaDeviation to 0 and emaVariance
\* to INITIAL_EMA_VARIANCE and leaves positionQty as it was; the tick is
\* then handled on the reset state: inside a restricted window the state
\* stays as reset, otherwise the tick is the first observation of the new
\* session.
C10_RolloverKeepsPosition ==
    [][Rollover =>
          /\ sessionReset'.happened
          /\ sessionReset'.observationCount = 0
          /\ sessionReset'.emaDeviation = 0
          /\ sessionReset'.emaVariance = INITIAL_EMA_VARIANCE
          /\ sessionReset'.positionQty = state.positionQty
          /\ state'.currentSessionDate = tick'.sessionDate
          /\ IF InRestrictedWindow'
             THEN /\ state'.observationCount = 0
                  /\ state'.emaDeviation = 0
                  /\ state'.emaVariance = INITIAL_EMA_VARIANCE
                  /\ state'.positionQty = state.positionQty
             ELSE /\ state'.observationCount = 1
                  /\ state'.emaDeviation = tick'.deviation]_vars

\* the state right after a rollover handled inside a restricted window:
\* statistics at their priors, a non-zero position still tracked
C10_Witness ==
    /\ sessionReset.happened
    /\ sessionReset.positionQty # 0
    /\ InRestrictedWindow
    /\ state.observationCount = 0
    /\ state.emaVariance = INITIAL_EMA_VARIANCE
    /\ state.positionQty = sessionReset.positionQty

\* C11 as stated (SpecManager): when a tick's sessionDate differs from the
\* stored one, the session reset leaves every entry-level flag of both
\* directions false and the scaling flag false, and no level is marked
\* triggered in the state the tick leaves.
C11_Original ==
    [][Rollover =>
          /\ reset_session(state).entry_levels_triggered = ClearedLevels(policy)
          /\ ~reset_session(state).scaling_order_sent
          /\ state'.entry_levels_triggered = ClearedLevels(policy)]_vars

\* C12 as stated (SpecAnyTick): every tick handled, one with an unparseable
\* timestamp included, gets a decision whose action is hold, place or
\* flatten, and a tick whose timestamp does not parse gets hold.
C12_Original ==
    tick.valid
        => /\ decision.action \in {"hold", "place", "flatten"}
           /\ tick.timestamp = BadTime => decision = Hold

\* C13 as stated (SpecEngine): after every tick DecisionEngine.decide has
\* handled, the positionQty stored for the symbol equals the positionQty the
\* tick reported.
C13_Original == tick.valid => state.positionQty = tick.positionQty

\* C14 (SpecDirect): with direct execution configured, every tick changes
\* the symbol's state and gets the decision exactly as DecisionEngine.decide
\* does up to the decision of the strategy, whether the order placer accepts
\* the order, rejects it or raises: nothing of the state is written after
\* the execution attempt and the decision returned is the strategy's.
C14_ExecutionIsolated == [][EngineCore(tick')]_vars

\* an order the order placer raised on: send_decision answered False, the
\* order is returned all the same
C14_Witness ==
    /\ execution = "false"
    /\ decision.action = "place"
    /\ state.observationCount >= WarmupObservations

\* C15 as stated (SpecConcurrent): once two requests for the symbol that
\* were handled concurrently have both returned, the symbol's state and the
\* two decisions are those of handling the first tick and then the second,
\* and the two decisions are not orders for the same entry level of the
\* same side.
C15_Original ==
    (requests["A"].request.valid /\ ~InFlight)
        => /\ state = serial.state
           /\ requests["A"].decision = serial.first
           /\ requests["B"].decision = serial.second
           /\ ~(/\ requests["A"].decision.action = "place"
                /\ requests["A"].decision = requests["B"].decision)

\* a SessionManager has been asked about a time of day
Queried == resolver.manager.session_config # << >>

Sessions == resolver.manager.session_config
Periods == resolver.manager.no_trading_periods

\* minute of the day of a configured "HH:MM" and of the time asked about
Minutes(clock) == clock[1] * 60 + clock[2]
MinuteNow == resolver.current_time \div 60

Wraps(from, to) == Minutes(to) < Minutes(from)

\* the window from..to, both minutes included, contains the minute asked
\* about; a window whose end is before its start passes midnight
InWindow(from, to) ==
    IF Wraps(from, to)
    THEN MinuteNow >= Minutes(from) \/ MinuteNow <= Minutes(to)
    ELSE Minutes(from) <= MinuteNow /\ MinuteNow <= Minutes(to)

SessionContains(i) == InWindow(Sessions[i].start_time, Sessions[i].end_time)

\* C16 (SpecSession): get_current_session returns the name of a configured
\* session whose window contains the time of day asked about, taken at the
\* minute resolution of "%H:%M" (a session with end < start contains it iff
\* it is >= start or <= end), the first such session in configuration
\* order; when no configured session contains it, the configured default
\* session name is returned.
C16_SessionResolution ==
    Queried =>
        IF \E i \in 1..Len(Sessions) : SessionContains(i)
        THEN \E i \in 1..Len(Sessions) :
                /\ SessionContains(i)
                /\ \A j \in 1..(i - 1) : ~SessionContains(j)
                /\ resolver.current_session = Sessions[i].name
        ELSE resolver.current_session = resolver.manager.default_session

\* a session that wraps past midnight returned for a time after midnight,
\* where it is not the default
C16_Witness ==
    /\ Queried
    /\ resolver.current_session # resolver.manager.default_session
    /\ \E i \in 1..Len(Sessions) :
          /\ Sessions[i].name = resolver.current_session
          /\ Wraps(Sessions[i].start_time, Sessions[i].end_time)
          /\ MinuteNow <= Minutes(Sessions[i].end_time)

\* C17 as stated: a time of day equal to the end time of a session that
\* does not wrap is not inside that session.
C17_Original ==
    Queried =>
        \A i \in 1..Len(Sessions) :
            (/\ ~Wraps(Sessions[i].start_time, Sessions[i].end_time)
             /\ resolver.current_time = 60 * Minutes(Sessions[i].end_time))
                => ~is_time_in_session(strftime(resolver.current_time),
                                       Sessions[i])

\* C17 (SpecSession), amended: a session window that does not wrap is
\* closed at both ends at minute resolution: a time of day is inside it iff
\* its minute is >= start and <= end, so the end time and every second of
\* the end minute are inside.
C17_ClosedWindow ==
    Queried =>
        \A i \in 1..Len(Sessions) :
            ~Wraps(Sessions[i].start_time, Sessions[i].end_time)
                => (is_time_in_session(strftime(resolver.current_time),
                                       Sessions[i])
                    <=> /\ Minutes(Sessions[i].start_time) <= MinuteNow
                        /\ MinuteNow <= Minutes(Sessions[i].end_time))

\* a time thirty seconds into the end minute of a session that does not
\* wrap, resolved to that session
C17_Witness ==
    /\ Queried
    /\ resolver.current_session # resolver.manager.default_session
    /\ \E i \in 1..Len(Sessions) :
          /\ Sessions[i].name = resolver.current_session
          /\ ~Wraps(Sessions[i].start_time, Sessions[i].end_time)
          /\ resolver.current_time = 60 * Minutes(Sessions[i].end_time) + 30

\* C18 (SpecSession): is_trading_allowed is false iff the time of day asked
\* about, at minute resolution, is inside at least one configured
\* no-trading period (a period with end < start passing midnight), whatever
\* session the time resolves to.
C18_TradingAllowed ==
    Queried =>
        (resolver.trading_allowed
            <=> ~\E i \in 1..Len(Periods) :
                    InWindow(Periods[i].start, Periods[i].end))

\* trading refused after midnight inside a period that began before it,
\* the period not being the first of the list
C18_Witness ==
    /\ Queried
    /\ ~resolver.trading_allowed
    /\ \E i \in 2..Len(Periods) :
          /\ Wraps(Periods[i].start, Periods[i].end)
          /\ MinuteNow <= Minutes(Periods[i].end)

\* the configuration of the session the time resolved to
ResolvedConfig ==
    Sessions[CHOOSE i \in 1..Len(Sessions) :
                Sessions[i].name = resolver.current_session]

\* C19 (SpecSession): should_flatten_positions is true iff the session the
\* time resolves to defines a flatten_time and the time of day is at or
\* after it; with no flatten_time it is false at every time.
C19_ShouldFlatten ==
    Queried =>
        (resolver.should_flatten
            <=> /\ ResolvedConfig.flatten_time # << >>
                /\ resolver.current_time
                     >= 60 * Minutes(ResolvedConfig.flatten_time))

\* flatten demanded at the very second of flatten_time
C19_Witness ==
    /\ Queried
    /\ resolver.should_flatten
    /\ ResolvedConfig.flatten_time # << >>
    /\ resolver.current_time = 60 * Minutes(ResolvedConfig.flatten_time)

\* ------------------------------------------------------ indicator alone
\* deviations lastPrice - vwap from 50 to 1000 points, both signs, and 0
IndicatorDeviations ==
    {-1000 * Scale, -200 * Scale, -50 * Scale, 0,
     50 * Scale, 200 * Scale, 1000 * Scale}

\* VWAPReversionStrategy.decide lines 35-40 after the session check of the
\* orchestrator: the deviation of the tick, the observation counted, the
\* EWMA fields updated and the z-score returned
UpdateEwmaZ(t) ==
    /\ \E r \in {maybe_reset_session(state, t.sessionDate)} :
         /\ r.observationCount < IndicatorObs
         /\ \E counted \in {[r EXCEPT !.observationCount = @ + 1]} :
              \E ind \in {update_ewma_z(counted, t.deviation)} :
                 /\ state' = [counted EXCEPT
                                 !.emaDeviation = ind.emaDeviation,
                                 !.emaVariance = ind.emaVariance]
                 /\ zScore' = ind.z
    /\ tick' = t
    /\ sessionReset' = ResetRecord(state, t.sessionDate)
    /\ UNCHANGED <<orchestrator, policy, decision, venuePos, execution,
                   requests, serial, resolver, floored, unfilled, store, scaled>>

IndicatorNext ==
    \E dev \in IndicatorDeviations, date \in SessionDates :
        UpdateEwmaZ(MakeTick(0, dev, NoTime, date, <<0, 25>>, FALSE))

\* the indicator fed with deviations of several magnitudes
SpecIndicator == InitEngine /\ [][IndicatorNext]_vars

\* C20 (SpecIndicator): in every reachable symbol state the z-score
\* update_ewma_z returns for a deviation d is > 0 when d > 0, < 0 when
\* d < 0 and exactly 0 when d = 0.
C20_ZScoreSign ==
    tick.valid =>
        /\ tick.deviation > 0 => zScore > 0
        /\ tick.deviation < 0 => zScore < 0
        /\ tick.deviation = 0 => zScore = 0

\* a negative deviation scored while the smoothed deviation is positive,
\* after the first observation of the session
C20_Witness ==
    /\ tick.valid
    /\ state.observationCount >= 2
    /\ tick.deviation < 0
    /\ state.emaDeviation > 0
    /\ zScore < 0

\* C21 (SpecFloor): for every variance, raw or bias-corrected, the effective
\* variance is >= MIN_VARIANCE_THRESHOLD and <= max(input, threshold); it is
\* the threshold at input = threshold and the input at input = 1.5 x
\* threshold; and it has no jump: when the input rises by one unit (0.1) the
\* effective variance rises by between 0 and 2 units, also across both ends
\* of the blend zone.
C21_VarianceFloor ==
    /\ [](/\ floored.effective_variance >= MIN_VARIANCE_THRESHOLD
          /\ floored.effective_variance
               <= Max(floored.corrected_variance, MIN_VARIANCE_THRESHOLD)
          /\ floored.corrected_variance = MIN_VARIANCE_THRESHOLD
               => floored.effective_variance = MIN_VARIANCE_THRESHOLD
          /\ 2 * floored.corrected_variance = 3 * MIN_VARIANCE_THRESHOLD
               => floored.effective_variance = floored.corrected_variance)
    /\ [][floored'.corrected_variance = floored.corrected_variance + 1
            => /\ floored'.effective_variance >= floored.effective_variance
               /\ floored'.effective_variance
                    <= floored.effective_variance + 2]_vars

\* a bias-corrected variance strictly inside the blend zone, floored to a
\* value strictly between the threshold and the input
C21_Witness ==
    /\ floored.observationCount = 2
    /\ floored.corrected_variance < floored.emaVariance
    /\ MIN_VARIANCE_THRESHOLD < floored.effective_variance
    /\ floored.effective_variance < floored.corrected_variance
    /\ 2 * floored.corrected_variance < 3 * MIN_VARIANCE_THRESHOLD

\* C22 as stated (SpecLagged): with fills that lag the orders by any number
\* of ticks, the reported position plus the quantity of the buy orders
\* emitted and not yet filled never exceeds max_total_position, and the
\* reported position minus the quantity of such sell orders never goes below
\* -max_total_position.
C22_Original ==
    /\ venuePos + unfilled.buy <= policy.max_total_position
    /\ venuePos - unfilled.sell >= -policy.max_total_position

\* the tick handled last got past the warmup, variance, exit and maximum
\* position returns of Policy.decide (lines 39-62) to the entry evaluation
ReachedEntry ==
    /\ tick.valid
    /\ state.observationCount >= WarmupObservations
    /\ Abs(tick.positionQty) < policy.max_total_position
    /\ ~(Abs(zScore) < policy.z_exit /\ tick.positionQty # 0)
    /\ ~VarianceGuard(state.emaVariance, tick.tickSize)

\* the flags with the level of a place decision marked
Fired(levels, d) ==
    IF d.action # "place" THEN levels
    ELSE IF d.side = "buy" THEN [levels EXCEPT !.long[d.level] = TRUE]
    ELSE [levels EXCEPT !.short[d.level] = TRUE]

\* number of flags set, both directions
RECURSIVE CountSet(_, _)
CountSet(triggered, i) ==
    IF i > Len(triggered) THEN 0
    ELSE (IF triggered[i] THEN 1 ELSE 0) + CountSet(triggered, i + 1)

FlagsSet(levels) == CountSet(levels.long, 1) + CountSet(levels.short, 1)

\* C23 (SpecManager): on every call of Policy.decide that reaches entry
\* evaluation, if the position implied by the flags held before the call
\* differs from the position passed in, the flags after the call are all
\* false except the one level fired in this call (none when no level
\* fires); if they agree, the flags after the call are those held before
\* plus the level fired.
C23_Reconciliation ==
    [][\/ IF tick'.positionQty
              # ExpectedPosition(policy, state.entry_levels_triggered)
         THEN /\ state'.entry_levels_triggered
                   = Fired(ClearedLevels(policy), decision')
              /\ FlagsSet(state'.entry_levels_triggered) <= 1
         ELSE state'.entry_levels_triggered
                   = Fired(state.entry_levels_triggered, decision')
       \/ ~ReachedEntry']_vars

\* a level fired on a tick reporting a long position of 1, and no other flag
\* left set: the flags that stood for the position were reset in this call
C23_Witness ==
    /\ ReachedEntry
    /\ tick.positionQty = 1
    /\ decision.action = "place"
    /\ FlagsSet(state.entry_levels_triggered) = 1

AnySet(triggered) == \E i \in 1..Len(triggered) : triggered[i]

\* C24 as stated (SpecFilled): with every order filled before the next tick,
\* long and short trigger flags are never set at the same time, and whenever
\* the position the next tick will report is 0 no flag is set.
C24_Original ==
    /\ ~(AnySet(state.entry_levels_triggered.long)
         /\ AnySet(state.entry_levels_triggered.short))
    /\ venuePos = 0 => FlagsSet(state.entry_levels_triggered) = 0

\* C25 as stated (Spec): a place order never opposes the open position: buy
\* is returned only for a tick reporting a position >= 0 and sell only for
\* a tick reporting a position <= 0.
C25_Original ==
    decision.action = "place" =>
        /\ decision.side = "buy" => tick.positionQty >= 0
        /\ decision.side = "sell" => tick.positionQty <= 0

\* C26 (SpecRestricted): on every tick whose time of day lies in
\* 07:25:00-07:45:00 or 15:15:00-17:00:00, ends included,
\* DecisionEngine.decide returns flatten iff the tick reports a non-zero
\* position and hold otherwise, never place, and the strategy is not
\* consulted: no observation is counted and no z-score computed.
C26_RestrictedDecision ==
    [][InRestrictedWindow' =>
         /\ decision'.action = "flatten" <=> tick'.positionQty # 0
         /\ decision'.action = "hold" <=> tick'.positionQty = 0
         /\ decision'.action # "place"
         /\ state'.observationCount
              = (IF Rollover THEN 0 ELSE state.observationCount)
         /\ zScore' = 0]_vars

\* a tick at the last second of the afternoon window, past warmup, with a
\* position and a deviation that would be acted on outside the window
C26_Witness ==
    /\ InRestrictedWindow
    /\ tick.timestamp = HMS(17, 0, 0)
    /\ state.observationCount >= WarmupObservations
    /\ tick.positionQty # 0
    /\ tick.deviation # 0
    /\ decision = Flatten

\* C27 as stated (SpecEngine): after a flatten that DecisionEngine.decide
\* returns because the tick lies in a restricted window, no scaling order is
\* marked as already sent.
C27_Original ==
    (InRestrictedWindow /\ decision.action = "flatten")
        => ~state.scaling_order_sent

\* C28 (SpecRestricted): a tick whose time of day lies in a restricted
\* window leaves observationCount, emaDeviation, emaVariance, the stored
\* positionQty and scaling_order_sent as they were; when it also changes the
\* session date, the statistics and the flag take their initial values and
\* the stored positionQty is still unchanged.
C28_RestrictedFrame ==
    [][InRestrictedWindow' =>
         /\ state'.positionQty = state.positionQty
         /\ IF Rollover
            THEN /\ state'.observationCount = 0
                 /\ state'.emaDeviation = 0
                 /\ state'.emaVariance = INITIAL_EMA_VARIANCE
                 /\ ~state'.scaling_order_sent
            ELSE /\ state'.observationCount = state.observationCount
                 /\ state'.emaDeviation = state.emaDeviation
                 /\ state'.emaVariance = state.emaVariance
                 /\ state'.scaling_order_sent = state.scaling_order_sent]_vars

\* a restricted tick of the running session, before warmup is complete,
\* reporting another position than the stored one and another deviation
\* than the smoothed one
C28_Witness ==
    /\ InRestrictedWindow
    /\ ~sessionReset.happened
    /\ state.observationCount = 1
    /\ state.emaDeviation # 0
    /\ tick.positionQty # state.positionQty
    /\ tick.deviation # state.emaDeviation

\* C29 as stated (SpecDates): a tick resets the session iff the stored
\* session date is present and differs from the tick's sessionDate, also
\* when the change is implausible or the string malformed; the first tick of
\* a symbol never resets; every tick produces a decision; and after every
\* tick the stored currentSessionDate is the tick's sessionDate.
C29_Original ==
    [][tick'.valid =>
         /\ sessionReset'.happened
              <=> (state.currentSessionDate # NoDate
                   /\ state.currentSessionDate # tick'.sessionDate)
         /\ decision'.action \in {"hold", "place", "flatten"}
         /\ state'.currentSessionDate = tick'.sessionDate]_vars

\* C30 (SpecIndicator): every tick that reaches the strategy raises
\* observationCount by exactly 1, from 0 when the tick changes the session
\* date; the tick evaluated with observationCount = 1 sets emaDeviation to
\* the deviation and emaVariance to 2 x |deviation|; every later tick moves
\* emaDeviation by a tenth towards the deviation and emaVariance by a tenth
\* towards the squared distance between the deviation and emaDeviation as it
\* was before this tick.
C30_ObservationSeeding ==
    [][tick'.valid =>
         /\ state'.observationCount
              = (IF Rollover THEN 0 ELSE state.observationCount) + 1
         /\ IF state'.observationCount = 1
            THEN /\ state'.emaDeviation = tick'.deviation
                 /\ state'.emaVariance = 2 * Abs(tick'.deviation)
            ELSE /\ state'.emaDeviation
                      = Quot(9 * state.emaDeviation + tick'.deviation, 10)
                 /\ state'.emaVariance
                      = Quot(9 * state.emaVariance
                             + Quot((tick'.deviation - state.emaDeviation)
                                    * (tick'.deviation - state.emaDeviation),
                                    Scale),
                             10)]_vars

\* the first tick after a session reset, seeding the statistics with a
\* non-zero deviation in place of the priors the reset had restored
C30_Witness ==
    /\ tick.valid
    /\ sessionReset.happened
    /\ sessionReset.emaVariance = INITIAL_EMA_VARIANCE
    /\ state.observationCount = 1
    /\ tick.deviation # 0
    /\ state.emaDeviation = tick.deviation
    /\ state.emaVariance = 2 * Abs(tick.deviation)

\* ----------------------------------------------------------- state store
\* a get that hands out a new SymbolState on every call
get_AlwaysNew(symbols, symbol_name, fresh) == (symbol_name :> fresh) @@ symbols

\* StateStore.get and BaseStrategy.get_state: the dict after the call; the
\* state returned is the dict's entry for symbol_name
get(symbols, symbol_name, fresh) ==
    IF symbol_name \notin DOMAIN symbols
    THEN symbols @@ (symbol_name :> fresh)
    ELSE symbols

\* SymbolState() as the orchestrator's strategy uses it
FreshState ==
    IF orchestrator = "engine" THEN NewSymbolState ELSE NewStrategyState(policy)

\* DecisionEngine.decide (lines 82-100) and StrategyManager.process_tick
\* (lines 38-43) on the state s the store returned: the state they leave,
\* the z-score and the decision
DecideFor(s, t) ==
    LET r == maybe_reset_session(s, t.sessionDate)
    IN  IF orchestrator = "manager" THEN LayeredStrategyDecide(policy, r, t)
        ELSE IF is_restricted_hours(t.timestamp)
        THEN [state |-> r, z |-> 0,
              decision |-> IF t.positionQty # 0 THEN Flatten ELSE Hold]
        ELSE SessionStrategyDecide(
                 validate_and_update_position(r, t.positionQty), t)

\* a tick for symbol_name served through the store; venuePos follows one
\* symbol only and is left alone here
StoreTick(symbol_name, t) ==
    \E got \in {get(store.symbols, symbol_name, FreshState)} :
        /\ got[symbol_name].observationCount < MaxObs
        /\ \E out \in {DecideFor(got[symbol_name], t)} :
              /\ store' = [symbols |-> [got EXCEPT ![symbol_name] = out.state],
                           symbolName |-> symbol_name]
              /\ state' = out.state
              /\ zScore' = out.z
              /\ decision' = out.decision
        /\ tick' = t
        /\ sessionReset' = ResetRecord(got[symbol_name], t.sessionDate)
        /\ execution' = "none"
        /\ UNCHANGED <<orchestrator, policy, venuePos, requests, serial,
                       resolver, floored, unfilled, scaled>>

StorePositions == {0}
StoreDeviations == {-1000 * Scale, 1000 * Scale}
StoreTimestamps == {HMS(12, 0, 0)}

StoreNext ==
    \E symbol_name \in Symbols, pos \in StorePositions,
       dev \in StoreDeviations, ts \in StoreTimestamps, date \in SessionDates :
        StoreTick(symbol_name, MakeTick(pos, dev, ts, date, <<0, 25>>, FALSE))

\* an engine or a manager whose store holds no symbol yet
InitStore == Init /\ policy = SpacedLevels

\* ticks of two symbols served by one engine or one manager
SpecStore == InitStore /\ [][StoreNext]_vars

\* C31 (SpecStore): a tick for a symbol the store has not seen is handled on
\* a state holding the initial priors, and a tick for a symbol it has seen
\* on the state the store holds for it; the store's symbols only grow by
\* the symbol of the tick, and the state of every other symbol is the same
\* after the tick as before.
C31_SymbolIsolation ==
    [][/\ DOMAIN store'.symbols
            = DOMAIN store.symbols \cup {store'.symbolName}
       /\ store'.symbols[store'.symbolName]
            = DecideFor(IF store'.symbolName \in DOMAIN store.symbols
                        THEN store.symbols[store'.symbolName]
                        ELSE FreshState,
                        tick').state
       /\ \A other \in DOMAIN store.symbols \ {store'.symbolName} :
            store'.symbols[other] = store.symbols[other]]_vars

\* the first tick of NQ, handled after two ticks of ES: NQ starts its own
\* count and ES keeps the count it had
C31_Witness ==
    /\ store.symbolName = "NQ"
    /\ DOMAIN store.symbols = Symbols
    /\ store.symbols["NQ"].observationCount = 1
    /\ store.symbols["ES"].observationCount = 2
    /\ store.symbols["ES"].emaDeviation # store.symbols["NQ"].emaDeviation

\* C32 as stated (SpecAnyTick): whenever the strategy fails on a tick, so
\* that process_tick returns no decision for it, the symbol's state
\* (observationCount, EWMA fields, session date, expected position, trigger
\* flags) is the same after the tick as before.
C32_Original == [][decision' = NoDecision => state' = state]_vars

\* the trend filter's answer for the tick handled last
AvoidMeanReversion == should_avoid_mean_reversion(tick.timestamp, tick.trend)

\* C33 as stated (SpecEngine): every call of the session-threshold policy
\* with spread > max_spread_ticks x effective tick size returns hold, also
\* when the exit condition holds and also when the trend filter is active.
C33_Original ==
    PolicyCalled /\ SpreadGuard(tick.spread, tick.tickSize) => decision = Hold

\* C33 (SpecEngine), amended: every call of the session-threshold policy
\* with spread > max_spread_ticks x effective tick size returns hold when
\* the trend filter is not active, also when the exit condition or an entry
\* threshold is satisfied; when the trend filter is active and the warmup is
\* over, the trend guard answers before the spread is looked at: flatten
\* when the exit condition holds, hold otherwise.
C33_SpreadGuard ==
    PolicyCalled /\ SpreadGuard(tick.spread, tick.tickSize)
        => IF AvoidMeanReversion
              /\ state.observationCount >= WarmupObservations
              /\ ExitCondition
           THEN decision = Flatten
           ELSE decision = Hold

\* a hold on a wide spread past the warmup and variance guards, the trend
\* filter quiet, although the position is open and the z-score is inside the
\* exit threshold
C33_Witness ==
    /\ orchestrator = "engine"
    /\ PolicyCalled
    /\ PastGuards
    /\ SpreadGuard(tick.spread, tick.tickSize)
    /\ ~AvoidMeanReversion
    /\ ExitCondition
    /\ decision = Hold

\* ----------------------------------------------------------- trend filter
\* (timestamp, instrument, trend): inside the NY session with the trend
\* filter quiet and active, on a narrow and on a wide spread
TrendInputs ==
    { <<HMS(12, 0, 0), <<0, 25>>, FALSE>>,
      <<HMS(12, 0, 0), <<0, 25>>, TRUE>>,
      <<HMS(12, 0, 0), <<0, 75>>, TRUE>> }

TrendNext ==
    \E pos \in EnginePositions, dev \in Deviations, in \in TrendInputs :
        EngineDecide(MakeTick(pos, dev, in[1], 1, in[2], in[3]))

\* one session of ticks, the trend filter quiet on some and active on others
SpecTrend == InitEngine /\ [][TrendNext]_vars

\* C34 (SpecTrend): for every tick past warmup that reaches the
\* session-threshold policy with the trend filter reporting
\* avoid_mean_reversion, the decision is flatten when |zScore| < z_exit and
\* positionQty # 0 and hold otherwise, never place.
C34_TrendGuard ==
    /\ PolicyCalled
    /\ state.observationCount >= WarmupObservations
    /\ AvoidMeanReversion
    => decision = (IF ExitCondition THEN Flatten ELSE Hold)

\* a hold with the trend filter active although the position is flat, the
\* spread narrow, the variance sufficient and the z-score beyond the entry
\* threshold
C34_Witness ==
    /\ PolicyCalled
    /\ PastGuards
    /\ AvoidMeanReversion
    /\ ~SpreadGuard(tick.spread, tick.tickSize)
    /\ tick.positionQty = 0
    /\ Abs(zScore) > get_session_thresholds(NoTime).z_entry
    /\ decision = Hold

\* ---------------------------------------------------------- scaling orders
ScalingObs == 4         \* ticks per session when scaling orders are counted

Min(a, b) == IF a <= b THEN a ELSE b

\* a second-entry order: a place for a tick reporting |positionQty| = 1
ScalingOrder(t, d) == d.action = "place" /\ Abs(t.positionQty) = 1

\* scaling orders emitted since |positionQty| last differed from 1, and
\* those of them emitted since the last session reset; 2 stands for more
Counted(s, t, d) ==
    LET k == IF ScalingOrder(t, d) THEN 1 ELSE 0
    IN  IF Abs(t.positionQty) # 1 THEN NoScaling
        ELSE [session |-> Min(2, (IF SessionChanged(s, t.sessionDate) THEN 0
                                  ELSE scaled.session) + k),
              run |-> Min(2, scaled.run + k)]

\* DecisionEngine.decide, the scaling orders of the current run counted
ScalingDecide(t) ==
    /\ orchestrator = "engine"
    /\ maybe_reset_session(state, t.sessionDate).observationCount < ScalingObs
    /\ \E out \in {DecideFor(state, t)} :
          /\ state' = out.state
          /\ zScore' = out.z
          /\ decision' = out.decision
    /\ tick' = t
    /\ sessionReset' = ResetRecord(state, t.sessionDate)
    /\ venuePos' = Filled(t.positionQty, decision')
    /\ execution' = "none"
    /\ scaled' = Counted(state, t, decision')
    /\ UNCHANGED <<orchestrator, policy, requests, serial, resolver, floored,
                   unfilled, store>>

ScalingPositions == {0, 1, 2}
ScalingDeviations == {-1000 * Scale, 1000 * Scale}
ScalingTimestamps == {HMS(12, 0, 0), HMS(7, 30, 0)}

ScalingNext ==
    \E pos \in ScalingPositions, dev \in ScalingDeviations,
       ts \in ScalingTimestamps, date \in SessionDates :
        ScalingDecide(MakeTick(pos, dev, ts, date, <<0, 25>>, FALSE))

\* ticks of a symbol whose long position is scaled
SpecScaling == InitEngine /\ [][ScalingNext]_vars

DecideLagged(t) ==
    /\ orchestrator = "engine"
    /\ t.positionQty = venuePos
    /\ maybe_reset_session(state, t.sessionDate).observationCount < ScalingObs
    /\ \E out \in {DecideFor(state, t)} :
          /\ state' = out.state
          /\ zScore' = out.z
          /\ decision' = out.decision
    /\ tick' = t
    /\ sessionReset' = ResetRecord(state, t.sessionDate)
    /\ execution' = "none"
    /\ unfilled' = Working(unfilled, decision')
    /\ unfilled'.buy <= MaxUnfilled
    /\ unfilled'.sell <= MaxUnfilled
    /\ venuePos' = IF decision'.action = "flatten" THEN 0 ELSE venuePos
    /\ UNCHANGED <<orchestrator, policy, requests, serial, resolver, floored,
                   store, scaled>>

LaggedDecide ==
    \E dev \in Deviations, date \in SessionDates :
        DecideLagged(MakeTick(venuePos, dev, HMS(12, 0, 0), date, <<0, 25>>,
                              FALSE))

TwoStepNext ==
    \/ LaggedDecide
    \/ \E quantity \in 1..MaxUnfilled : FillBuy(quantity)
    \/ \E quantity \in 1..MaxUnfilled : FillSell(quantity)

\* DecisionEngine.decide with a venue that fills orders any number of ticks
\* late
SpecTwoStep == InitEngine /\ [][TwoStepNext]_vars

\* what the claim says of each place decision: quantity 1, and a reported
\* position of 0, or of 1 in absolute value with the signal on its side
PlaceAllowed ==
    decision.action = "place"
        => /\ decision.quantity = 1
           /\ \/ tick.positionQty = 0
              \/ /\ Abs(tick.positionQty) = 1
                 /\ (decision.side = "buy") = (tick.positionQty > 0)

\* C36 as stated (SpecTwoStep): every place decision of the two-step policy
\* has quantity 1 and is emitted on a reported position of 0, or of 1 in
\* absolute value with the signal on the side of the position; and over any
\* tick sequence, fills reported late included, the position plus the
\* quantity ordered and not yet filled stays within MAX_POSITION_SIZE in
\* absolute value.
C36_Original ==
    /\ PlaceAllowed
    /\ venuePos + unfilled.buy <= MAX_POSITION_SIZE
    /\ venuePos - unfilled.sell >= -MAX_POSITION_SIZE

\* scaling_order_sent as Policy.decide is given it for the tick of a step
SentBefore ==
    IF Abs(tick'.positionQty) # 1 THEN FALSE
    ELSE maybe_reset_session(state, tick'.sessionDate).scaling_order_sent

\* C37 as stated (SpecEngine): every tick that reaches the session-threshold
\* policy is decided with the thresholds of the session its time of day falls
\* in: the overnight entry, exit and second-entry thresholds outside the NY
\* window, the NY ones inside.
C37_Original ==
    [][PolicyCalled'
         => decision' = SessionDecide(zScore', tick'.positionQty, tick'.spread,
                                      state'.observationCount,
                                      state'.emaVariance, tick'.tickSize,
                                      AvoidMeanReversion', SentBefore,
                                      tick'.timestamp)]_vars
====
